---- MODULE Spec2Model ----
(***************************************************************************)
(* A model of the record cleaner of the college scraper                    *)
(* (src/data_processor.py, with the text utilities of src/utils.py), of    *)
(* the page extractor and scrape loop (src/scraper.py) and of the lookup   *)
(* in the table of known colleges (src/college_database.py).               *)
(*                                                                         *)
(* A Python string is a sequence of one-character strings, so that the     *)
(* regular expressions, slices and substring tests of the code are         *)
(* computed character by character.  A Python value of any type is a       *)
(* tagged record [t |-> type, v |-> payload].  Scores are kept in          *)
(* hundredths (0.15 is 15): every score of the code is rounded to two      *)
(* decimals.                                                               *)
(***************************************************************************)
EXTENDS Integers, Sequences, FiniteSets, TLC

VARIABLES
  pc, raw, out,   \* a call of clean_college_data: its position, argument and result
  again,          \* the result of cleaning the record returned once more
  fn, arg, ret,   \* a call of a utility function: its name, argument and result
  spc,            \* scrape_colleges: its position
  todo,           \* the URLs of all_urls the loop has still to visit
  html,           \* what fetch_url returned for the first of them
  college_info,   \* the outcome of extract_college_info_from_html on it
  colleges_data,  \* the records collected
  scraped_urls,   \* self.scraped_urls
  self,           \* the attributes of the DataProcessor that concurrent calls share
  calls,          \* the concurrent calls of clean_college_data: each one's frame
  gen,            \* a call of generate_content_with_retry: its frame and its model calls
  proc,           \* a call of process_colleges: its frame and its results
  inter           \* a call of process_college of the interactive finder: its frame

cleaner_vars == <<pc, raw, out, again>>
call_vars == <<fn, arg, ret>>
scraper_vars == <<spc, todo, html, college_info, colleges_data, scraped_urls>>

thread_vars == <<self, calls>>
gen_vars == <<gen>>
proc_vars == <<proc>>
inter_vars == <<inter>>

vars == <<cleaner_vars, call_vars, scraper_vars, thread_vars, gen_vars, proc_vars, inter_vars>>

----------------------------------------------------------------------------
(* Characters *)

LowerLetters ==
  <<"a","b","c","d","e","f","g","h","i","j","k","l","m",
    "n","o","p","q","r","s","t","u","v","w","x","y","z">>

UpperLetters ==
  <<"A","B","C","D","E","F","G","H","I","J","K","L","M",
    "N","O","P","Q","R","S","T","U","V","W","X","Y","Z">>

DigitChars == <<"0","1","2","3","4","5","6","7","8","9">>

SeqRange(s) == {s[i] : i \in 1..Len(s)}

LowerSet == SeqRange(LowerLetters)
UpperSet == SeqRange(UpperLetters)
DigitSet == SeqRange(DigitChars)

\* \s of the re module, over the characters of the model.
IsSpace(c) == c \in {" ", "\t", "\n"}

\* \d and \w of the re module, over ASCII.
IsDigit(c) == c \in DigitSet
IsWord(c) == c \in LowerSet \cup UpperSet \cup DigitSet \cup {"_"}

\* The characters clean_text keeps: [\w\s.,!?()-].
IsKept(c) == IsWord(c) \/ IsSpace(c) \/ c \in {".", ",", "!", "?", "(", ")", "-"}

IndexOf(c, s) == CHOOSE i \in 1..Len(s) : s[i] = c

ToLowerCh(c) == IF c \in UpperSet THEN LowerLetters[IndexOf(c, UpperLetters)] ELSE c
ToUpperCh(c) == IF c \in LowerSet THEN UpperLetters[IndexOf(c, LowerLetters)] ELSE c

----------------------------------------------------------------------------
(* str methods and slices *)

\* str.lower()
Lower(s) == [i \in 1..Len(s) |-> ToLowerCh(s[i])]

\* s[a-1:b] of Python, with 1-based inclusive bounds; empty when a > b.
Slice(s, a, b) == [i \in 1..(IF b >= a THEN b - a + 1 ELSE 0) |-> s[a + i - 1]]

\* s[:n]
Prefix(s, n) == Slice(s, 1, IF Len(s) < n THEN Len(s) ELSE n)

\* s[n:] with n the number of characters dropped
Suffix(s, n) == Slice(s, n + 1, Len(s))

\* s.startswith(p)
StartsWith(s, p) == Len(p) <= Len(s) /\ \A i \in 1..Len(p) : s[i] = p[i]

\* s[i:].startswith(p), i 1-based
MatchAt(s, i, p) == i + Len(p) - 1 <= Len(s) /\ \A k \in 1..Len(p) : s[i + k - 1] = p[k]

\* p in s
Contains(s, p) == \E i \in 1..(Len(s) - Len(p) + 1) : MatchAt(s, i, p)

\* s.find(p) + 1 (0 when p does not occur)
Find(s, p) ==
  IF Contains(s, p)
  THEN CHOOSE i \in 1..(Len(s) - Len(p) + 1) :
         MatchAt(s, i, p) /\ \A j \in 1..(i - 1) : ~MatchAt(s, j, p)
  ELSE 0

\* s.strip()
Strip(s) ==
  LET solid == {i \in 1..Len(s) : ~IsSpace(s[i])}
  IN  IF solid = {} THEN <<>>
      ELSE Slice(s, CHOOSE i \in solid : \A j \in solid : i <= j,
                    CHOOSE i \in solid : \A j \in solid : i >= j)

\* s.replace(p, r): every non-overlapping occurrence, left to right.
RECURSIVE Replace(_, _, _)
Replace(s, p, r) ==
  LET i == Find(s, p)
  IN  IF i = 0 THEN s
      ELSE Slice(s, 1, i - 1) \o r \o Replace(Suffix(s, i + Len(p) - 1), p, r)

\* re.sub(r'\s+', ' ', s): each run of whitespace becomes one space.
CollapseSpace(s) ==
  LET idx  == [i \in 1..Len(s) |-> i]
      Keep(i) == ~IsSpace(s[i]) \/ i = 1 \/ ~IsSpace(s[i - 1])
      kept == SelectSeq(idx, Keep)
  IN  [k \in 1..Len(kept) |-> IF IsSpace(s[kept[k]]) THEN " " ELSE s[kept[k]]]

\* re.sub(r'[^\w\s.,!?()-]', '', s)
StripSpecial(s) == SelectSeq(s, IsKept)

\* The first index >= i of s whose character is not whitespace (Len(s)+1 if none):
\* where a greedy \s* that starts at i stops.
SkipSpace(s, i) ==
  LET stop == {j \in i..Len(s) : ~IsSpace(s[j])}
  IN  IF stop = {} THEN Len(s) + 1 ELSE CHOOSE j \in stop : \A k \in stop : j <= k

----------------------------------------------------------------------------
(* Python values *)

PyStr(s)  == [t |-> "str",  v |-> s]
PyList(l) == [t |-> "list", v |-> l]
PyInt(n)  == [t |-> "int",  v |-> <<n>>]
PyNone    == [t |-> "none", v |-> <<>>]
\* The key is absent from the dict: dict.get returns its default.
Missing   == [t |-> "missing", v |-> <<>>]
PyDict(f) == [t |-> "dict", v |-> f]

IsStr(x) == x.t = "str"

\* bool(x)
Truthy(x) ==
  CASE x.t = "str"  -> Len(x.v) > 0
    [] x.t = "list" -> Len(x.v) > 0
    [] x.t = "int"  -> x.v[1] # 0
    [] x.t = "dict" -> \E k \in DOMAIN x.v : x.v[k] # Missing
    [] OTHER        -> FALSE

\* `for item in x` is defined for a str (its characters) and a list.
Iterable(x) == x.t \in {"str", "list"}
Items(x) == IF x.t = "str" THEN [i \in 1..Len(x.v) |-> PyStr(<<x.v[i]>>)] ELSE x.v

\* The outcome of a call that may raise.
Ok(x) == [ok |-> TRUE, val |-> x]
Raise == [ok |-> FALSE, val |-> <<>>]

----------------------------------------------------------------------------
(* src/utils.py *)

html_entities ==
  << [entity |-> <<"&","a","m","p",";">>,         replacement |-> <<"&">>],
     [entity |-> <<"&","l","t",";">>,             replacement |-> <<"<">>],
     [entity |-> <<"&","g","t",";">>,             replacement |-> <<">">>],
     [entity |-> <<"&","q","u","o","t",";">>,     replacement |-> <<"\"">>],
     [entity |-> <<"&","#","3","9",";">>,         replacement |-> <<"'">>],
     [entity |-> <<"&","n","b","s","p",";">>,     replacement |-> <<" ">>],
     [entity |-> <<"&","h","e","l","l","i","p",";">>, replacement |-> <<".",".",".">>] >>

\* The loop over html_entities.items(): entities k..7 replaced in turn.
RECURSIVE ReplaceEntities(_, _)
ReplaceEntities(s, k) ==
  IF k > Len(html_entities) THEN s
  ELSE ReplaceEntities(Replace(s, html_entities[k].entity, html_entities[k].replacement), k + 1)

\* clean_text(text), text any Python value; the result is a string.
clean_text(text) ==
  IF ~Truthy(text) \/ ~IsStr(text) THEN <<>>
  ELSE Strip(ReplaceEntities(StripSpecial(CollapseSpace(text.v)), 1))

\* re.sub(r'[^\d+]', '', phone)
DigitsAndPlus(s) == SelectSeq(s, LAMBDA c : IsDigit(c) \/ c = "+")

\* str.isdigit()
IsDigits(s) == Len(s) > 0 /\ \A i \in 1..Len(s) : IsDigit(s[i])

\* A faulty normalize_phone_number: the leading trunk prefix '0' is not removed.
normalize_phone_number_trunk(phone) ==
  IF Len(phone) = 0 THEN PyNone
  ELSE
    LET c0 == DigitsAndPlus(phone)
        cleaned ==
          IF StartsWith(c0, <<"+","9","1">>) THEN Suffix(c0, 3)
          ELSE IF StartsWith(c0, <<"9","1">>) /\ Len(c0) = 12 THEN Suffix(c0, 2)
          ELSE c0
    IN  IF Len(cleaned) = 10 /\ IsDigits(cleaned)
        THEN PyStr(<<"+","9","1","-">> \o Prefix(cleaned, 5) \o <<"-">> \o Suffix(cleaned, 5))
        ELSE IF Len(cleaned) >= 6 /\ Len(cleaned) <= 11 /\ IsDigits(cleaned)
        THEN PyStr(cleaned)
        ELSE PyNone

\* normalize_phone_number(phone), phone a string; PyNone when it returns None.
normalize_phone_number(phone) ==
  IF Len(phone) = 0 THEN PyNone
  ELSE
    LET c0 == DigitsAndPlus(phone)
        cleaned ==
          IF StartsWith(c0, <<"+","9","1">>) THEN Suffix(c0, 3)
          ELSE IF StartsWith(c0, <<"9","1">>) /\ Len(c0) = 12 THEN Suffix(c0, 2)
          ELSE IF StartsWith(c0, <<"0">>) THEN Suffix(c0, 1)
          ELSE c0
    IN  IF Len(cleaned) = 10 /\ IsDigits(cleaned)
        THEN PyStr(<<"+","9","1","-">> \o Prefix(cleaned, 5) \o <<"-">> \o Suffix(cleaned, 5))
        ELSE IF Len(cleaned) >= 6 /\ Len(cleaned) <= 11 /\ IsDigits(cleaned)
        THEN PyStr(cleaned)
        ELSE PyNone

\* The character classes of the pattern of validate_email.
IsAlnum(c) == c \in LowerSet \cup UpperSet \cup DigitSet
IsEmailLocal(c) == IsAlnum(c) \/ c \in {".", "_", "%", "+", "-"}
IsEmailDomain(c) == IsAlnum(c) \/ c \in {".", "-"}
IsAlpha(c) == c \in LowerSet \cup UpperSet

\* validate_email(email): ^[a-zA-Z0-9._%+-]+@[a-zA-Z0-9.-]+\.[a-zA-Z]{2,}$
validate_email(email) ==
  /\ Len(email) > 0
  /\ Contains(email, <<"@">>)
  /\ \E a \in 2..Len(email) :
       /\ email[a] = "@"
       /\ \A i \in 1..(a - 1) : IsEmailLocal(email[i])
       /\ \E d \in (a + 2)..(Len(email) - 2) :
            /\ email[d] = "."
            /\ \A i \in (a + 1)..(d - 1) : IsEmailDomain(email[i])
            /\ \A i \in (d + 1)..Len(email) : IsAlpha(email[i])

----------------------------------------------------------------------------
(* src/data_processor.py: the tables of DataProcessor.__init__ *)

\* self.course_categories: the course keyword table, in declaration order.
course_categories ==
  <<
    [category |-> "Engineering", keywords |-> <<
        <<"b","t","e","c","h">>,
        <<"b","e">>,
        <<"m","t","e","c","h">>,
        <<"m","e">>,
        <<"c","i","v","i","l">>,
        <<"m","e","c","h","a","n","i","c","a","l">>,
        <<"e","l","e","c","t","r","i","c","a","l">>,
        <<"c","o","m","p","u","t","e","r"," ","s","c","i","e","n","c","e">>,
        <<"i","n","f","o","r","m","a","t","i","o","n"," ","t","e","c","h","n","o","l","o","g","y">>,
        <<"e","l","e","c","t","r","o","n","i","c","s">>,
        <<"c","h","e","m","i","c","a","l">>
    >>],
    [category |-> "Medical", keywords |-> <<
        <<"m","b","b","s">>,
        <<"b","d","s">>,
        <<"m","d">>,
        <<"m","s">>,
        <<"n","u","r","s","i","n","g">>,
        <<"p","h","a","r","m","a","c","y">>,
        <<"p","h","y","s","i","o","t","h","e","r","a","p","y">>,
        <<"m","e","d","i","c","a","l">>,
        <<"d","e","n","t","a","l">>,
        <<"v","e","t","e","r","i","n","a","r","y">>
    >>],
    [category |-> "Management", keywords |-> <<
        <<"m","b","a">>,
        <<"b","b","a">>,
        <<"p","g","d","m">>,
        <<"m","a","n","a","g","e","m","e","n","t">>,
        <<"b","u","s","i","n","e","s","s"," ","a","d","m","i","n","i","s","t","r","a","t","i","o","n">>,
        <<"f","i","n","a","n","c","e">>,
        <<"m","a","r","k","e","t","i","n","g">>,
        <<"h","r">>,
        <<"o","p","e","r","a","t","i","o","n","s">>
    >>],
    [category |-> "Arts", keywords |-> <<
        <<"b","a">>,
        <<"m","a">>,
        <<"e","n","g","l","i","s","h">>,
        <<"h","i","s","t","o","r","y">>,
        <<"p","o","l","i","t","i","c","a","l"," ","s","c","i","e","n","c","e">>,
        <<"s","o","c","i","o","l","o","g","y">>,
        <<"p","s","y","c","h","o","l","o","g","y">>,
        <<"l","i","t","e","r","a","t","u","r","e">>,
        <<"f","i","n","e"," ","a","r","t","s">>,
        <<"p","e","r","f","o","r","m","i","n","g"," ","a","r","t","s">>
    >>],
    [category |-> "Science", keywords |-> <<
        <<"b","s","c">>,
        <<"m","s","c">>,
        <<"p","h","y","s","i","c","s">>,
        <<"c","h","e","m","i","s","t","r","y">>,
        <<"b","i","o","l","o","g","y">>,
        <<"m","a","t","h","e","m","a","t","i","c","s">>,
        <<"b","o","t","a","n","y">>,
        <<"z","o","o","l","o","g","y">>,
        <<"m","i","c","r","o","b","i","o","l","o","g","y">>,
        <<"b","i","o","t","e","c","h","n","o","l","o","g","y">>
    >>],
    [category |-> "Commerce", keywords |-> <<
        <<"b","c","o","m">>,
        <<"m","c","o","m">>,
        <<"c","o","m","m","e","r","c","e">>,
        <<"a","c","c","o","u","n","t","i","n","g">>,
        <<"e","c","o","n","o","m","i","c","s">>,
        <<"t","a","x","a","t","i","o","n">>,
        <<"b","a","n","k","i","n","g">>,
        <<"i","n","s","u","r","a","n","c","e">>
    >>],
    [category |-> "Computer Science", keywords |-> <<
        <<"b","c","a">>,
        <<"m","c","a">>,
        <<"c","o","m","p","u","t","e","r"," ","s","c","i","e","n","c","e">>,
        <<"i","n","f","o","r","m","a","t","i","o","n"," ","t","e","c","h","n","o","l","o","g","y">>,
        <<"s","o","f","t","w","a","r","e"," ","e","n","g","i","n","e","e","r","i","n","g">>,
        <<"d","a","t","a"," ","s","c","i","e","n","c","e">>,
        <<"a","r","t","i","f","i","c","i","a","l"," ","i","n","t","e","l","l","i","g","e","n","c","e">>
    >>],
    [category |-> "Law", keywords |-> <<
        <<"l","l","b">>,
        <<"l","l","m">>,
        <<"l","a","w">>,
        <<"l","e","g","a","l"," ","s","t","u","d","i","e","s">>,
        <<"c","o","n","s","t","i","t","u","t","i","o","n","a","l"," ","l","a","w">>,
        <<"c","o","r","p","o","r","a","t","e"," ","l","a","w">>,
        <<"c","r","i","m","i","n","a","l"," ","l","a","w">>
    >>]
  >>

\* self.facility_categories: the facility keyword table, in declaration order.
facility_categories ==
  <<
    [category |-> "Academic", keywords |-> <<
        <<"l","i","b","r","a","r","y">>,
        <<"l","a","b","o","r","a","t","o","r","y">>,
        <<"c","o","m","p","u","t","e","r"," ","l","a","b">>,
        <<"c","l","a","s","s","r","o","o","m">>,
        <<"a","u","d","i","t","o","r","i","u","m">>,
        <<"s","e","m","i","n","a","r"," ","h","a","l","l">>,
        <<"c","o","n","f","e","r","e","n","c","e"," ","r","o","o","m">>,
        <<"r","e","s","e","a","r","c","h"," ","c","e","n","t","e","r">>
    >>],
    [category |-> "Accommodation", keywords |-> <<
        <<"h","o","s","t","e","l">>,
        <<"d","o","r","m","i","t","o","r","y">>,
        <<"r","e","s","i","d","e","n","c","e">>,
        <<"a","c","c","o","m","m","o","d","a","t","i","o","n">>,
        <<"g","u","e","s","t"," ","h","o","u","s","e">>,
        <<"b","o","y","s"," ","h","o","s","t","e","l">>,
        <<"g","i","r","l","s"," ","h","o","s","t","e","l">>
    >>],
    [category |-> "Recreation", keywords |-> <<
        <<"s","p","o","r","t","s"," ","c","o","m","p","l","e","x">>,
        <<"g","y","m","n","a","s","i","u","m">>,
        <<"p","l","a","y","g","r","o","u","n","d">>,
        <<"s","w","i","m","m","i","n","g"," ","p","o","o","l">>,
        <<"c","a","f","e","t","e","r","i","a">>,
        <<"c","a","n","t","e","e","n">>,
        <<"f","o","o","d"," ","c","o","u","r","t">>,
        <<"s","t","u","d","e","n","t"," ","c","e","n","t","e","r">>
    >>],
    [category |-> "Technology", keywords |-> <<
        <<"w","i","f","i">>,
        <<"i","n","t","e","r","n","e","t">>,
        <<"c","o","m","p","u","t","e","r"," ","c","e","n","t","e","r">>,
        <<"s","m","a","r","t"," ","c","l","a","s","s","r","o","o","m">>,
        <<"p","r","o","j","e","c","t","o","r">>,
        <<"a","u","d","i","o"," ","v","i","s","u","a","l">>,
        <<"l","a","n","g","u","a","g","e"," ","l","a","b">>
    >>],
    [category |-> "Healthcare", keywords |-> <<
        <<"m","e","d","i","c","a","l"," ","c","e","n","t","e","r">>,
        <<"h","e","a","l","t","h"," ","c","e","n","t","e","r">>,
        <<"c","l","i","n","i","c">>,
        <<"i","n","f","i","r","m","a","r","y">>,
        <<"f","i","r","s","t"," ","a","i","d">>,
        <<"c","o","u","n","s","e","l","i","n","g"," ","c","e","n","t","e","r">>
    >>],
    [category |-> "Transportation", keywords |-> <<
        <<"b","u","s"," ","s","e","r","v","i","c","e">>,
        <<"t","r","a","n","s","p","o","r","t">>,
        <<"s","h","u","t","t","l","e">>,
        <<"p","a","r","k","i","n","g">>,
        <<"v","e","h","i","c","l","e">>
    >>]
  >>

\* karnataka_cities of clean_location, in list order.
karnataka_cities ==
  <<
    <<"b","a","n","g","a","l","o","r","e">>,
    <<"m","y","s","o","r","e">>,
    <<"h","u","b","l","i">>,
    <<"d","h","a","r","w","a","d">>,
    <<"b","e","l","g","a","u","m">>,
    <<"m","a","n","g","a","l","o","r","e">>,
    <<"g","u","l","b","a","r","g","a">>,
    <<"d","a","v","a","n","g","e","r","e">>,
    <<"b","e","l","l","a","r","y">>,
    <<"b","i","j","a","p","u","r">>,
    <<"s","h","i","m","o","g","a">>,
    <<"t","u","m","k","u","r">>,
    <<"r","a","i","c","h","u","r">>,
    <<"b","i","d","a","r">>,
    <<"h","a","s","s","a","n">>,
    <<"u","d","u","p","i">>,
    <<"c","h","i","c","k","m","a","g","a","l","u","r">>
  >>

\* common_affiliations of clean_affiliation.
common_affiliations ==
  <<
    <<"a","i","c","t","e">>,
    <<"u","g","c">>,
    <<"n","a","a","c">>,
    <<"n","b","a">>,
    <<"v","t","u">>,
    <<"b","a","n","g","a","l","o","r","e"," ","u","n","i","v","e","r","s","i","t","y">>,
    <<"m","y","s","o","r","e"," ","u","n","i","v","e","r","s","i","t","y">>,
    <<"k","a","r","n","a","t","a","k","a"," ","u","n","i","v","e","r","s","i","t","y">>,
    <<"m","a","n","g","a","l","o","r","e"," ","u","n","i","v","e","r","s","i","t","y">>
  >>

\* city_district_map of extract_location_details, in declaration order.
city_district_map ==
  <<
    [city |-> <<"b","a","n","g","a","l","o","r","e">>, district |-> <<"B","a","n","g","a","l","o","r","e"," ","U","r","b","a","n">>],
    [city |-> <<"m","y","s","o","r","e">>, district |-> <<"M","y","s","u","r","u">>],
    [city |-> <<"h","u","b","l","i">>, district |-> <<"D","h","a","r","w","a","d">>],
    [city |-> <<"d","h","a","r","w","a","d">>, district |-> <<"D","h","a","r","w","a","d">>],
    [city |-> <<"b","e","l","g","a","u","m">>, district |-> <<"B","e","l","a","g","a","v","i">>],
    [city |-> <<"m","a","n","g","a","l","o","r","e">>, district |-> <<"D","a","k","s","h","i","n","a"," ","K","a","n","n","a","d","a">>],
    [city |-> <<"g","u","l","b","a","r","g","a">>, district |-> <<"K","a","l","a","b","u","r","a","g","i">>],
    [city |-> <<"d","a","v","a","n","g","e","r","e">>, district |-> <<"D","a","v","a","n","a","g","e","r","e">>],
    [city |-> <<"b","e","l","l","a","r","y">>, district |-> <<"B","a","l","l","a","r","i">>],
    [city |-> <<"b","i","j","a","p","u","r">>, district |-> <<"V","i","j","a","y","a","p","u","r","a">>],
    [city |-> <<"s","h","i","m","o","g","a">>, district |-> <<"S","h","i","v","a","m","o","g","g","a">>],
    [city |-> <<"t","u","m","k","u","r">>, district |-> <<"T","u","m","a","k","u","r","u">>]
  >>

----------------------------------------------------------------------------
(* src/data_processor.py: the field cleaners *)

\* The limits of the cleaners.
MaxLocation == 100
MaxAddress == 200
MaxPhones == 5
MaxEmails == 3
MaxCourses == 20
MaxFacilities == 15
MaxDescription == 500
MaxAffiliation == 100
MaxImages == 5
MinItemLen == 3
MaxItemLen == 100
\* The context kept on each side of the city by clean_location: .{0,50}
CityWindow == 50

UnknownCollege == <<"U","n","k","n","o","w","n"," ","C","o","l","l","e","g","e">>

name_prefixes ==
  << <<"c","o","l","l","e","g","e"," ","o","f">>,
     <<"i","n","s","t","i","t","u","t","e"," ","o","f">>,
     <<"u","n","i","v","e","r","s","i","t","y"," ","o","f">> >>

name_suffixes ==
  << <<"c","o","l","l","e","g","e">>,
     <<"i","n","s","t","i","t","u","t","e">>,
     <<"u","n","i","v","e","r","s","i","t","y">> >>

\* re.sub(r'^(college of|institute of|university of)\s+', '', name, flags=re.IGNORECASE)
StripNamePrefix(name) ==
  LET low == Lower(name)
      hit == {k \in 1..Len(name_prefixes) :
                /\ StartsWith(low, name_prefixes[k])
                /\ Len(name) > Len(name_prefixes[k])
                /\ IsSpace(name[Len(name_prefixes[k]) + 1])}
  IN  IF hit = {} THEN name
      ELSE LET k == CHOOSE x \in hit : \A y \in hit : x <= y
           IN  Suffix(name, SkipSpace(name, Len(name_prefixes[k]) + 1) - 1)

\* re.sub(r'\s+(college|institute|university)$', r' \1', name, flags=re.IGNORECASE):
\* the whitespace run before a final college/institute/university becomes one space.
NormalizeNameSuffix(name) ==
  LET low == Lower(name)
      hit == {k \in 1..Len(name_suffixes) :
                /\ Len(name) > Len(name_suffixes[k])
                /\ MatchAt(low, Len(name) - Len(name_suffixes[k]) + 1, name_suffixes[k])
                /\ IsSpace(name[Len(name) - Len(name_suffixes[k])])}
  IN  IF hit = {} THEN name
      ELSE LET k == CHOOSE x \in hit : \A y \in hit : x <= y
               w == Len(name) - Len(name_suffixes[k]) + 1
               run == CHOOSE j \in 1..(w - 1) :
                        /\ \A i \in j..(w - 1) : IsSpace(name[i])
                        /\ (j = 1 \/ ~IsSpace(name[j - 1]))
           IN  Slice(name, 1, run - 1) \o <<" ">> \o Slice(name, w, Len(name))

\* str.isupper() and str.islower()
IsUpperStr(s) ==
  (\E i \in 1..Len(s) : s[i] \in UpperSet) /\ (\A i \in 1..Len(s) : s[i] \notin LowerSet)
IsLowerStr(s) ==
  (\E i \in 1..Len(s) : s[i] \in LowerSet) /\ (\A i \in 1..Len(s) : s[i] \notin UpperSet)

\* ' '.join(word.capitalize() for word in name.split()), for a name whose words
\* are separated by single spaces: the first character of each word upper-cased,
\* the others lower-cased.
CapitalizeWords(s) ==
  [i \in 1..Len(s) |->
     IF i = 1 \/ IsSpace(s[i - 1]) THEN ToUpperCh(s[i]) ELSE ToLowerCh(s[i])]

\* DataProcessor.clean_college_name(name), name any Python value
clean_college_name(name) ==
  IF ~Truthy(name) THEN UnknownCollege
  ELSE
    LET n1 == clean_text(name)
        n2 == StripNamePrefix(n1)
        n3 == NormalizeNameSuffix(n2)
        n4 == Strip(CollapseSpace(n3))
    IN  IF IsUpperStr(n4) \/ IsLowerStr(n4) THEN CapitalizeWords(n4) ELSE n4

\* re.search(rf'.{{0,50}}{city}.{{0,50}}', s).group(), for a city that occurs in s:
\* the leftmost match, each .{0,50} as long as it can be.
CityContext(s, city) ==
  LET first == Find(s, city)
      occ == {i \in 1..(CityWindow + 1) : MatchAt(s, i, city)}
      start == IF first <= CityWindow + 1 THEN 1 ELSE first - CityWindow
      at == IF first <= CityWindow + 1
            THEN CHOOSE i \in occ : \A j \in occ : i >= j
            ELSE first
      last == at + Len(city) - 1 + CityWindow
  IN  Slice(s, start, IF last > Len(s) THEN Len(s) ELSE last)

\* DataProcessor.clean_location(location)
clean_location(location) ==
  IF ~Truthy(location) THEN <<>>
  ELSE
    LET loc == clean_text(location)
        location_lower == Lower(loc)
        hit == {k \in 1..Len(karnataka_cities) : Contains(location_lower, karnataka_cities[k])}
    IN  IF hit # {}
        THEN clean_text(PyStr(CityContext(location_lower,
                 karnataka_cities[CHOOSE k \in hit : \A j \in hit : k <= j])))
        ELSE Prefix(loc, MaxLocation)

\* Where a greedy [\s:]* that starts at i stops.
SkipSpaceColon(s, i) ==
  LET stop == {j \in i..Len(s) : ~(IsSpace(s[j]) \/ s[j] = ":")}
  IN  IF stop = {} THEN Len(s) + 1 ELSE CHOOSE j \in stop : \A k \in stop : j <= k

\* The index of the last character of a match of
\* (pin\s*code|pincode|zip)[\s:]*\d{6} (IGNORECASE) that starts at i; 0 when none does.
PinMatchEnd(s, i) ==
  LET low == Lower(s)
      code == SkipSpace(s, i + 3)
      kw == IF MatchAt(low, i, <<"p","i","n">>) /\ MatchAt(low, code, <<"c","o","d","e">>)
            THEN code + 4
            ELSE IF MatchAt(low, i, <<"z","i","p">>) THEN i + 3
            ELSE 0
      d == SkipSpaceColon(s, kw)
  IN  IF kw # 0 /\ d + 5 <= Len(s) /\ \A k \in d..(d + 5) : IsDigit(s[k])
      THEN d + 5
      ELSE 0

\* re.sub(r'(pin\s*code|pincode|zip)[\s:]*\d{6}', '', s, flags=re.IGNORECASE)
RECURSIVE RemovePin(_)
RemovePin(s) ==
  LET hit == {i \in 1..Len(s) : PinMatchEnd(s, i) # 0}
  IN  IF hit = {} THEN s
      ELSE LET i == CHOOSE x \in hit : \A y \in hit : x <= y
           IN  Slice(s, 1, i - 1) \o RemovePin(Suffix(s, PinMatchEnd(s, i)))

\* DataProcessor.clean_address(address)
clean_address(address) ==
  IF ~Truthy(address) THEN <<>>
  ELSE Prefix(Strip(CollapseSpace(RemovePin(clean_text(address)))), MaxAddress)

\* A faulty loop of clean_phone_numbers: the `not in seen_phones` test forgotten.
RECURSIVE clean_phone_loop_noseen(_, _, _)
clean_phone_loop_noseen(items, i, cleaned_phones) ==
  IF i > Len(items) THEN cleaned_phones
  ELSE
    LET normalized == IF IsStr(items[i]) THEN normalize_phone_number(items[i].v) ELSE PyNone
    IN  IF IsStr(items[i]) /\ Truthy(normalized)
        THEN clean_phone_loop_noseen(items, i + 1, Append(cleaned_phones, normalized.v))
        ELSE clean_phone_loop_noseen(items, i + 1, cleaned_phones)

\* The loop of clean_phone_numbers over the items from index i on;
\* cleaned_phones is the list so far (seen_phones is its set of elements).
RECURSIVE clean_phone_loop(_, _, _)
clean_phone_loop(items, i, cleaned_phones) ==
  IF i > Len(items) THEN cleaned_phones
  ELSE
    LET normalized == IF IsStr(items[i]) THEN normalize_phone_number(items[i].v) ELSE PyNone
    IN  IF IsStr(items[i]) /\ Truthy(normalized) /\ normalized.v \notin SeqRange(cleaned_phones)
        THEN clean_phone_loop(items, i + 1, Append(cleaned_phones, normalized.v))
        ELSE clean_phone_loop(items, i + 1, cleaned_phones)

\* A faulty clean_phone_numbers: the [:5] slice of the return forgotten.
clean_phone_numbers_uncapped(phone_list) ==
  IF ~Truthy(phone_list) THEN Ok(<<>>)
  ELSE IF ~Iterable(phone_list) THEN Raise
  ELSE Ok(clean_phone_loop(Items(phone_list), 1, <<>>))

\* DataProcessor.clean_phone_numbers(phone_list), phone_list any Python value
clean_phone_numbers(phone_list) ==
  IF ~Truthy(phone_list) THEN Ok(<<>>)
  ELSE IF ~Iterable(phone_list) THEN Raise
  ELSE Ok(Prefix(clean_phone_loop(Items(phone_list), 1, <<>>), MaxPhones))

\* The loop of clean_email_addresses.
RECURSIVE clean_email_loop(_, _, _)
clean_email_loop(items, i, cleaned_emails) ==
  IF i > Len(items) THEN cleaned_emails
  ELSE
    LET email == IF IsStr(items[i]) THEN Lower(Strip(items[i].v)) ELSE <<>>
    IN  IF IsStr(items[i]) /\ validate_email(email) /\ email \notin SeqRange(cleaned_emails)
        THEN clean_email_loop(items, i + 1, Append(cleaned_emails, email))
        ELSE clean_email_loop(items, i + 1, cleaned_emails)

\* DataProcessor.clean_email_addresses(email_list)
clean_email_addresses(email_list) ==
  IF ~Truthy(email_list) THEN Ok(<<>>)
  ELSE IF ~Iterable(email_list) THEN Raise
  ELSE Ok(Prefix(clean_email_loop(Items(email_list), 1, <<>>), MaxEmails))

HttpScheme == <<"h","t","t","p",":","/","/">>
HttpsScheme == <<"h","t","t","p","s",":","/","/">>

\* urlparse(url).netloc for a url that starts with http:// or https://: urlsplit
\* drops tabs and newlines, then the netloc runs from the // to the first of / ? #.
\* Raise stands for the ValueError of a netloc with an unmatched [ or ].  A netloc
\* that holds both brackets is an IP literal, which recent versions of urllib
\* validate with the ipaddress module; no website of the model holds one.
UrlNetloc(url) ==
  LET u == SelectSeq(url, LAMBDA c : c \notin {"\t", "\n"})
      from == IF StartsWith(u, HttpsScheme) THEN Len(HttpsScheme) + 1 ELSE Len(HttpScheme) + 1
      stop == {j \in from..Len(u) : u[j] \in {"/", "?", "#"}}
      to == IF stop = {} THEN Len(u) ELSE (CHOOSE j \in stop : \A k \in stop : j <= k) - 1
      netloc == Slice(u, from, to)
  IN  IF Contains(netloc, <<"[">>) # Contains(netloc, <<"]">>) THEN Raise ELSE Ok(netloc)

\* DataProcessor.clean_website_url(website)
clean_website_url(website) ==
  IF ~Truthy(website) THEN Ok(<<>>)
  ELSE IF ~IsStr(website) THEN Raise
  ELSE
    LET w == Strip(website.v)
        url == IF Len(w) > 0 /\ ~StartsWith(w, HttpScheme) /\ ~StartsWith(w, HttpsScheme)
               THEN HttpsScheme \o w
               ELSE w
    IN  IF Len(url) = 0 THEN Ok(<<>>)
        ELSE LET parsed == UrlNetloc(url)
             IN  IF parsed.ok /\ Len(parsed.val) > 0 THEN Ok(url) ELSE Ok(<<>>)


\* A faulty classify: the `break` forgotten, so that the last matching category
\* of the table wins.
classify_last(label_lower, table) ==
  LET hit == {k \in 1..Len(table) :
                \E n \in 1..Len(table[k].keywords) : Contains(label_lower, table[k].keywords[n])}
  IN  IF hit = {} THEN "Other"
      ELSE table[CHOOSE k \in hit : \A j \in hit : k >= j].category

\* The first category of the keyword table, in declaration order, one of whose
\* keywords occurs in the lower-cased label; 'Other' when none does
\* (the for/break over self.course_categories.items() and the `if not categorized`).
classify(label_lower, table) ==
  LET hit == {k \in 1..Len(table) :
                \E n \in 1..Len(table[k].keywords) : Contains(label_lower, table[k].keywords[n])}
  IN  IF hit = {} THEN "Other"
      ELSE table[CHOOSE k \in hit : \A j \in hit : k <= j].category

\* The keys of the categories dict in insertion order: the table's, then 'Other'.
category_order(table) == [k \in 1..(Len(table) + 1) |->
                            IF k <= Len(table) THEN table[k].category ELSE "Other"]

\* A faulty loop: the `if not categorized` forgotten, so that an item of a
\* category is listed under 'Other' as well.
RECURSIVE categorize_loop_both(_, _, _, _, _)
categorize_loop_both(items, i, table, cleaned, categories) ==
  IF i > Len(items) THEN [cleaned |-> cleaned, categories |-> categories]
  ELSE
    LET item == IF IsStr(items[i]) THEN clean_text(items[i]) ELSE <<>>
        category == classify(Lower(item), table)
        listed == [categories EXCEPT ![category] = Append(@, item)]
    IN  IF ~IsStr(items[i]) \/ Len(item) < MinItemLen \/ Len(item) > MaxItemLen
        THEN categorize_loop_both(items, i + 1, table, cleaned, categories)
        ELSE categorize_loop_both(items, i + 1, table, Append(cleaned, item),
                 IF category = "Other" THEN listed
                 ELSE [listed EXCEPT !["Other"] = Append(@, item)])

\* The loop of clean_and_categorize_courses / clean_and_categorize_facilities over
\* the items from index i on: the accepted items so far and the list of each category.
RECURSIVE categorize_loop(_, _, _, _, _)
categorize_loop(items, i, table, cleaned, categories) ==
  IF i > Len(items) THEN [cleaned |-> cleaned, categories |-> categories]
  ELSE
    LET item == IF IsStr(items[i]) THEN clean_text(items[i]) ELSE <<>>
    IN  IF ~IsStr(items[i]) \/ Len(item) < MinItemLen \/ Len(item) > MaxItemLen
        THEN categorize_loop(items, i + 1, table, cleaned, categories)
        ELSE categorize_loop(items, i + 1, table, Append(cleaned, item),
                 [categories EXCEPT ![classify(Lower(item), table)] = Append(@, item)])

\* A faulty remove_empty_categories: the `if v` filter forgotten.
keep_all_categories(pairs) == pairs

\* categories = {k: v for k, v in categories.items() if v}
remove_empty_categories(pairs) == SelectSeq(pairs, LAMBDA p : Len(p.items) > 0)

\* The categories dict after the loop, as the sequence of its (key, list) pairs in
\* iteration order, empty categories removed.
categories_of(table, categories) ==
  remove_empty_categories(
    [k \in 1..(Len(table) + 1) |->
       [category |-> category_order(table)[k], items |-> categories[category_order(table)[k]]]])

empty_categories(table) == [c \in SeqRange(category_order(table)) |-> <<>>]

\* The body of clean_and_categorize_courses, with self.course_categories as it
\* reads it.  has_unique tells whether the returned dict has the key
\* unique_categories (the early return has not).
categorize_courses(course_list, table) ==
  IF ~Truthy(course_list)
  THEN Ok([courses |-> <<>>, categories |-> <<>>, total_courses |-> 0,
           has_unique |-> FALSE, unique_categories |-> 0])
  ELSE IF ~Iterable(course_list) THEN Raise
  ELSE
    LET r == categorize_loop(Items(course_list), 1, table, <<>>, empty_categories(table))
        categories == categories_of(table, r.categories)
    IN  Ok([courses |-> Prefix(r.cleaned, MaxCourses), categories |-> categories,
            total_courses |-> Len(r.cleaned),
            has_unique |-> TRUE, unique_categories |-> Len(categories)])

\* DataProcessor.clean_and_categorize_courses(course_list), on a DataProcessor as
\* __init__ leaves it.
clean_and_categorize_courses(course_list) == categorize_courses(course_list, course_categories)

\* The body of clean_and_categorize_facilities, with self.facility_categories as
\* it reads it.
categorize_facilities(facility_list, table) ==
  IF ~Truthy(facility_list)
  THEN Ok([facilities |-> <<>>, categories |-> <<>>, total_facilities |-> 0,
           has_unique |-> FALSE, unique_categories |-> 0])
  ELSE IF ~Iterable(facility_list) THEN Raise
  ELSE
    LET r == categorize_loop(Items(facility_list), 1, table, <<>>, empty_categories(table))
        categories == categories_of(table, r.categories)
    IN  Ok([facilities |-> Prefix(r.cleaned, MaxFacilities), categories |-> categories,
            total_facilities |-> Len(r.cleaned),
            has_unique |-> TRUE, unique_categories |-> Len(categories)])

\* DataProcessor.clean_and_categorize_facilities(facility_list), on a
\* DataProcessor as __init__ leaves it.
clean_and_categorize_facilities(facility_list) ==
  categorize_facilities(facility_list, facility_categories)

marketing_phrases ==
  << <<"c","l","i","c","k"," ","h","e","r","e">>,
     <<"v","i","s","i","t"," ","o","u","r"," ","w","e","b","s","i","t","e">>,
     <<"c","o","n","t","a","c","t"," ","u","s">> >>

\* The length of the phrase of (click here|visit our website|contact us) that
\* matches at index i of s, case-insensitively; 0 when none does.
PhraseAt(s, i) ==
  LET low == Lower(s)
      hit == {k \in 1..Len(marketing_phrases) : MatchAt(low, i, marketing_phrases[k])}
  IN  IF hit = {} THEN 0 ELSE Len(marketing_phrases[CHOOSE k \in hit : \A j \in hit : k <= j])

\* re.sub(r'(click here|visit our website|contact us)', '', s, flags=re.IGNORECASE)
RECURSIVE RemovePhrases(_)
RemovePhrases(s) ==
  LET hit == {i \in 1..Len(s) : PhraseAt(s, i) # 0}
  IN  IF hit = {} THEN s
      ELSE LET i == CHOOSE x \in hit : \A y \in hit : x <= y
           IN  Slice(s, 1, i - 1) \o RemovePhrases(Suffix(s, i + PhraseAt(s, i) - 1))

\* s.split('.')
SplitDot(s) ==
  LET dots == SelectSeq([i \in 1..Len(s) |-> i], LAMBDA i : s[i] = ".")
  IN  [k \in 1..(Len(dots) + 1) |->
         Slice(s, IF k = 1 THEN 1 ELSE dots[k - 1] + 1,
                  IF k <= Len(dots) THEN dots[k] - 1 ELSE Len(s))]

\* The loop of clean_description over the sentences from index k on.
RECURSIVE truncate_loop(_, _, _)
truncate_loop(sentences, k, truncated) ==
  IF k > Len(sentences) THEN truncated
  ELSE IF Len(truncated) + Len(sentences[k]) <= MaxDescription
  THEN truncate_loop(sentences, k + 1, truncated \o sentences[k] \o <<".">>)
  ELSE truncated

\* DataProcessor.clean_description(description)
clean_description(description) ==
  IF ~Truthy(description) THEN <<>>
  ELSE
    LET d == RemovePhrases(clean_text(description))
        truncated == truncate_loop(SplitDot(d), 1, <<>>)
    IN  IF Len(d) > MaxDescription
        THEN (IF Len(truncated) > 0 THEN truncated ELSE Prefix(d, MaxDescription))
        ELSE d


\* datetime.now().year, the year of the run
current_year == 2026

\* str(n) for an integer n
RECURSIVE NatToStr(_)
NatToStr(n) == IF n < 10 THEN <<DigitChars[n + 1]>>
               ELSE NatToStr(n \div 10) \o <<DigitChars[(n % 10) + 1]>>
IntToStr(n) == IF n < 0 THEN <<"-">> \o NatToStr(-n) ELSE NatToStr(n)

\* str(year) for a str or an int
StrOf(x) == IF x.t = "int" THEN IntToStr(x.v[1]) ELSE x.v

\* int(s) for a string of digits
RECURSIVE StrToNat(_)
StrToNat(s) == IF Len(s) = 0 THEN 0
               ELSE 10 * StrToNat(Slice(s, 1, Len(s) - 1)) + IndexOf(s[Len(s)], DigitChars) - 1

\* Whether \b(19|20)\d{2}\b matches at index i of s.
YearAt(s, i) ==
  /\ i + 3 <= Len(s)
  /\ (i = 1 \/ ~IsWord(s[i - 1]))
  /\ (MatchAt(s, i, <<"1","9">>) \/ MatchAt(s, i, <<"2","0">>))
  /\ IsDigit(s[i + 2]) /\ IsDigit(s[i + 3])
  /\ (i + 3 = Len(s) \/ ~IsWord(s[i + 4]))

\* A faulty clean_establishment_year: the range test forgotten.
clean_establishment_year_unchecked(year) ==
  IF ~Truthy(year) THEN <<>>
  ELSE
    LET s == StrOf(year)
        hit == {i \in 1..Len(s) : YearAt(s, i)}
        i == CHOOSE x \in hit : \A y \in hit : x <= y
    IN  IF hit # {} THEN Slice(s, i, i + 3) ELSE <<>>

\* DataProcessor.clean_establishment_year(year)
clean_establishment_year(year) ==
  IF ~Truthy(year) THEN <<>>
  ELSE
    LET s == StrOf(year)
        hit == {i \in 1..Len(s) : YearAt(s, i)}
        i == CHOOSE x \in hit : \A y \in hit : x <= y
        year_int == StrToNat(Slice(s, i, i + 3))
    IN  IF hit # {} /\ 1800 <= year_int /\ year_int <= current_year
        THEN IntToStr(year_int)
        ELSE <<>>

\* DataProcessor.clean_affiliation(affiliation)
clean_affiliation(affiliation) ==
  IF ~Truthy(affiliation) THEN <<>>
  ELSE
    LET a == clean_text(affiliation)
    IN  IF \E k \in 1..Len(common_affiliations) : Contains(Lower(a), common_affiliations[k])
        THEN a
        ELSE IF Len(a) <= MaxAffiliation THEN Prefix(a, MaxAffiliation) ELSE <<>>

image_extensions == << <<".","j","p","g">>, <<".","j","p","e","g">>, <<".","p","n","g">>, <<".","w","e","b","p">> >>

\* The test of clean_image_urls on one stripped url.
IsImageUrl(u) ==
  /\ StartsWith(u, HttpScheme) \/ StartsWith(u, HttpsScheme)
  /\ \E k \in 1..Len(image_extensions) : Contains(Lower(u), image_extensions[k])

\* The loop of clean_image_urls.
RECURSIVE clean_image_loop(_, _, _)
clean_image_loop(items, i, cleaned_images) ==
  IF i > Len(items) THEN cleaned_images
  ELSE IF IsStr(items[i]) /\ IsImageUrl(Strip(items[i].v))
  THEN clean_image_loop(items, i + 1, Append(cleaned_images, Strip(items[i].v)))
  ELSE clean_image_loop(items, i + 1, cleaned_images)

\* DataProcessor.clean_image_urls(image_list)
clean_image_urls(image_list) ==
  IF ~Truthy(image_list) THEN Ok(<<>>)
  ELSE IF ~Iterable(image_list) THEN Raise
  ELSE Ok(Prefix(clean_image_loop(Items(image_list), 1, <<>>), MaxImages))

\* A faulty determine_college_type: `>=` in place of `>`, so among the categories
\* that share the maximum the last one wins.
determine_college_type_last(courses_data) ==
  LET cats == courses_data.categories
      best == {k \in 1..Len(cats) : \A j \in 1..Len(cats) : Len(cats[j].items) <= Len(cats[k].items)}
  IN  IF Len(cats) = 0 THEN "General"
      ELSE cats[CHOOSE k \in best : \A j \in best : k >= j].category

\* The loop of determine_college_type over the categories from index k on.
RECURSIVE college_type_loop(_, _, _, _)
college_type_loop(categories, k, max_courses, primary_type) ==
  IF k > Len(categories) THEN primary_type
  ELSE IF Len(categories[k].items) > max_courses
  THEN college_type_loop(categories, k + 1, Len(categories[k].items), categories[k].category)
  ELSE college_type_loop(categories, k + 1, max_courses, primary_type)

\* DataProcessor.determine_college_type(data), courses_data = data['courses']
determine_college_type(courses_data) ==
  IF Len(courses_data.categories) = 0 THEN "General"
  ELSE college_type_loop(courses_data.categories, 1, 0, "General")

Karnataka == <<"K","a","r","n","a","t","a","k","a">>
SouthCities == << <<"B","a","n","g","a","l","o","r","e">>, <<"M","y","s","o","r","e">>, <<"T","u","m","k","u","r">> >>
NorthCities == << <<"H","u","b","l","i">>, <<"D","h","a","r","w","a","d">>, <<"B","e","l","g","a","u","m">> >>
CoastalCities == << <<"M","a","n","g","a","l","o","r","e">>, <<"U","d","u","p","i">> >>

\* DataProcessor.extract_location_details(location), location a string
extract_location_details(location) ==
  LET hit == {k \in 1..Len(city_district_map) :
                Contains(Lower(location), city_district_map[k].city)}
      k == CHOOSE x \in hit : \A y \in hit : x <= y
      city == IF Len(location) = 0 \/ hit = {} THEN <<>>
              ELSE CapitalizeWords(city_district_map[k].city)
      district == IF Len(location) = 0 \/ hit = {} THEN <<>> ELSE city_district_map[k].district
      region == IF city \in SeqRange(SouthCities) THEN <<"S","o","u","t","h"," ","K","a","r","n","a","t","a","k","a">>
                ELSE IF city \in SeqRange(NorthCities) THEN <<"N","o","r","t","h"," ","K","a","r","n","a","t","a","k","a">>
                ELSE IF city \in SeqRange(CoastalCities) THEN <<"C","o","a","s","t","a","l"," ","K","a","r","n","a","t","a","k","a">>
                ELSE <<>>
  IN  [city |-> city, district |-> district, state |-> Karnataka, region |-> region]

\* The fields of a raw record.
Fields == {"name", "location", "address", "phone", "email", "website", "courses",
           "facilities", "description", "established", "affiliation", "source_url", "images"}

\* raw_data.get(key, default), raw_data a dict
Get(raw_data, key, default) ==
  IF raw_data.v[key] = Missing THEN default ELSE raw_data.v[key]

required_fields == <<"name", "location", "courses", "phone", "description">>

high_domains == << <<".","e","d","u">>, <<".","a","c",".","i","n">>, <<".","g","o","v",".","i","n">> >>
medium_domains == << <<"c","a","r","e","e","r","s","3","6","0">>, <<"c","o","l","l","e","g","e","d","u","n","i","a">>, <<"s","h","i","k","s","h","a">> >>

\* `domain in source_url`: a substring test on a str, a membership test on a list.
DomainIn(domain, source_url) ==
  IF IsStr(source_url) THEN Contains(source_url.v, domain)
  ELSE PyStr(domain) \in SeqRange(source_url.v)

\* DataProcessor.assess_data_quality(data), data the raw record.  completeness is
\* round(available_fields / len(required_fields), 2) in hundredths.
assess_data_quality(data) ==
  LET available_fields ==
        Cardinality({k \in 1..Len(required_fields) : Truthy(Get(data, required_fields[k], PyNone))})
      source_url == Get(data, "source_url", PyStr(<<>>))
      accuracy ==
        IF \E k \in 1..Len(high_domains) : DomainIn(high_domains[k], source_url) THEN "high"
        ELSE IF \E k \in 1..Len(medium_domains) : DomainIn(medium_domains[k], source_url)
        THEN "medium"
        ELSE "low"
  IN  IF ~Iterable(source_url) THEN Raise
      ELSE Ok([completeness |-> (available_fields * 100) \div Len(required_fields),
               accuracy |-> accuracy, freshness |-> "recent", reliability |-> "medium"])

\* Faulty fields_weights: the weight of name 0.3, so that the weights sum to 1.1.
fields_weights_heavy ==
  << [field |-> "name", weight |-> 30],
     [field |-> "location", weight |-> 15],
     [field |-> "phone", weight |-> 15],
     [field |-> "email", weight |-> 10],
     [field |-> "courses", weight |-> 20],
     [field |-> "facilities", weight |-> 10],
     [field |-> "description", weight |-> 10] >>

\* fields_weights of calculate_completeness, in hundredths
fields_weights ==
  << [field |-> "name", weight |-> 20],
     [field |-> "location", weight |-> 15],
     [field |-> "phone", weight |-> 15],
     [field |-> "email", weight |-> 10],
     [field |-> "courses", weight |-> 20],
     [field |-> "facilities", weight |-> 10],
     [field |-> "description", weight |-> 10] >>

\* len(data[field]): the characters of a str, the items of a list, and for the
\* courses and facilities dicts the number of their keys.
FieldLen(data, field) ==
  CASE field \in {"name", "location", "description"} -> Len(data[field].v)
    [] field \in {"phone", "email"} -> Len(data[field])
    [] field \in {"courses", "facilities"} -> IF data[field].has_unique THEN 4 ELSE 3

\* sum of the weights of the entries k.. of fields_weights whose field counts
RECURSIVE completeness_loop(_, _, _)
completeness_loop(data, k, score) ==
  IF k > Len(fields_weights) THEN score
  ELSE IF FieldLen(data, fields_weights[k].field) > 0
  THEN completeness_loop(data, k + 1, score + fields_weights[k].weight)
  ELSE completeness_loop(data, k + 1, score)

\* DataProcessor.calculate_completeness(data), data the cleaned record
calculate_completeness(data) == completeness_loop(data, 1, 0)

\* A faulty minimal data_quality: the initial quality_metrics of assess_data_quality
\* reused, with the minimal completeness.
minimal_data_quality_default ==
  [completeness |-> 10, accuracy |-> "medium", freshness |-> "recent", reliability |-> "medium"]

\* The data_quality of the minimal record.
minimal_data_quality ==
  [completeness |-> 10, accuracy |-> "low", freshness |-> "recent", reliability |-> "low"]

no_location_info == [city |-> <<>>, district |-> <<>>, state |-> Karnataka, region |-> <<>>]

\* DataProcessor.create_minimal_clean_data(raw_data), raw_data a dict
create_minimal_clean_data(raw_data) ==
  [name |-> Get(raw_data, "name", PyStr(UnknownCollege)),
   location |-> Get(raw_data, "location", PyStr(<<>>)),
   address |-> <<>>,
   phone |-> <<>>,
   email |-> <<>>,
   website |-> <<>>,
   courses |-> [courses |-> <<>>, categories |-> <<>>, total_courses |-> 0,
                has_unique |-> FALSE, unique_categories |-> 0],
   facilities |-> [facilities |-> <<>>, categories |-> <<>>, total_facilities |-> 0,
                   has_unique |-> FALSE, unique_categories |-> 0],
   description |-> Get(raw_data, "description", PyStr(<<>>)),
   established |-> <<>>,
   affiliation |-> <<>>,
   source_url |-> Get(raw_data, "source_url", PyStr(<<>>)),
   images |-> <<>>,
   college_type |-> "General",
   location_info |-> no_location_info,
   completeness_score |-> 10,
   data_quality |-> minimal_data_quality]

\* The dict built in the try block of clean_college_data, with the computed
\* fields added; the cleaners that can raise have returned.
cleaned_record(raw_data, phone, email, website, courses, facilities, images, data_quality) ==
  LET cleaned_data ==
        [name |-> PyStr(clean_college_name(Get(raw_data, "name", PyStr(<<>>)))),
         location |-> PyStr(clean_location(Get(raw_data, "location", PyStr(<<>>)))),
         address |-> clean_address(Get(raw_data, "address", PyStr(<<>>))),
         phone |-> phone,
         email |-> email,
         website |-> website,
         courses |-> courses,
         facilities |-> facilities,
         description |-> PyStr(clean_description(Get(raw_data, "description", PyStr(<<>>)))),
         established |-> clean_establishment_year(Get(raw_data, "established", PyStr(<<>>))),
         affiliation |-> clean_affiliation(Get(raw_data, "affiliation", PyStr(<<>>))),
         source_url |-> Get(raw_data, "source_url", PyStr(<<>>)),
         images |-> images,
         data_quality |-> data_quality]
  IN  [f \in DOMAIN cleaned_data \cup {"college_type", "location_info", "completeness_score"} |->
         CASE f = "college_type" -> determine_college_type(courses)
           [] f = "location_info" -> extract_location_details(cleaned_data.location.v)
           [] f = "completeness_score" -> calculate_completeness(cleaned_data)
           [] OTHER -> cleaned_data[f]]

\* DataProcessor.clean_college_data(raw_data), raw_data any Python value: Ok(the
\* record returned) or Raise when an exception leaves the call.  An exception of
\* the try block is handled by returning create_minimal_clean_data(raw_data); when
\* raw_data is no dict the first statement of the try block raises before college_name
\* is bound, and the handler, which reads college_name and calls raw_data.get, raises too.
clean_college_data(raw_data) ==
  IF raw_data.t # "dict" THEN Raise
  ELSE
    LET phone == clean_phone_numbers(Get(raw_data, "phone", PyList(<<>>)))
        email == clean_email_addresses(Get(raw_data, "email", PyList(<<>>)))
        website == clean_website_url(Get(raw_data, "website", PyStr(<<>>)))
        courses == clean_and_categorize_courses(Get(raw_data, "courses", PyList(<<>>)))
        facilities == clean_and_categorize_facilities(Get(raw_data, "facilities", PyList(<<>>)))
        images == clean_image_urls(Get(raw_data, "images", PyList(<<>>)))
        data_quality == assess_data_quality(raw_data)
    IN  IF phone.ok /\ email.ok /\ website.ok /\ courses.ok /\ facilities.ok
           /\ images.ok /\ data_quality.ok
        THEN Ok(cleaned_record(raw_data, phone.val, email.val, website.val, courses.val,
                               facilities.val, images.val, data_quality.val))
        ELSE Ok(create_minimal_clean_data(raw_data))


----------------------------------------------------------------------------
(* The raw records handed to the cleaner *)

\* How many items beyond a cleaner's limit the generated lists go.
MaxOver == 1
\* How far around the 500-character limit the generated descriptions go.
DescSlack == 1

Rep(c, n) == [i \in 1..n |-> c]

\* A raw record with the given keys; every other key is absent.
Dict(g) == PyDict([f \in Fields |-> IF f \in DOMAIN g THEN g[f] ELSE Missing])

PhoneNo(i) == <<"9","8","7","6","5","4","3","2">> \o <<DigitChars[(i \div 10) + 1], DigitChars[(i % 10) + 1]>>
EmailNo(i) == <<"u">> \o NatToStr(i) \o <<"@","x",".","i","n">>
CourseNo(i) == (CASE i % 3 = 0 -> <<"M","B","A"," ","B","a","t","c","h"," ">> [] i % 3 = 1 -> <<"B","S","c"," ","P","h","y","s","i","c","s"," ">> [] OTHER -> <<"Y","o","g","a"," ">>) \o NatToStr(i)
FacilityNo(i) == (CASE i % 3 = 0 -> <<"L","i","b","r","a","r","y"," ">> [] i % 3 = 1 -> <<"H","o","s","t","e","l"," ">> [] OTHER -> <<"T","e","m","p","l","e"," ">>) \o NatToStr(i)
ImageNo(i) == <<"h","t","t","p","s",":","/","/","x",".","i","n","/">> \o NatToStr(i) \o <<".","p","n","g">>

ListOf(Item(_), n) == PyList([i \in 1..n |-> PyStr(Item(i))])

TestCollege == PyStr(<<"T","e","s","t"," ","C","o","l","l","e","g","e">>)
SomeLocation == PyStr(<<"M","G"," ","R","o","a","d",","," ","M","y","s","o","r","e">>)
SomeDescription == PyStr(<<"A"," ","c","o","l","l","e","g","e","."," ","C","l","i","c","k"," ","h","e","r","e"," ","t","o"," ","a","p","p","l","y",".">>)
SomeUrl == PyStr(<<"h","t","t","p","s",":","/","/","x",".","e","d","u","/","a">>)

\* The course list of the classification scenario.
ScenarioCourses ==
  PyList(<<PyStr(<<"B",".","T","e","c","h"," ","C","o","m","p","u","t","e","r"," ","S","c","i","e","n","c","e">>), PyStr(<<"M","B","A"," ","F","i","n","a","n","c","e">>),
           PyStr(<<"P","a","i","n","t","i","n","g"," ","W","o","r","k","s","h","o","p">>)>>)

\* A record each of whose lists repeats a value.
RepeatInput ==
  Dict([phone |-> PyList(<<PyStr(<<"+","9","1"," ","9","8","7","6","5"," ","4","3","2","1","0">>), PyStr(<<"1","2","3","4","5">>),
                           PyStr(<<"0","9","8","7","6","5","4","3","2","1","0">>), PyStr(PhoneNo(1))>>),
        email |-> PyList(<<PyStr(<<"a","@","x",".","i","n">>), PyStr(<<" ","A","@","X",".","I","N"," ">>), PyStr(<<"a","@","x">>),
                           PyStr(<<"b","@","y",".","o","r","g">>)>>),
        courses |-> PyList(<<PyStr(<<"M","B","A"," ","F","i","n","a","n","c","e">>), PyStr(<<"B","S","c"," ","P","h","y","s","i","c","s">>),
                             PyStr(<<"M","B","A"," ","F","i","n","a","n","c","e">>)>>),
        facilities |-> PyList(<<PyStr(<<"L","i","b","r","a","r","y">>), PyStr(<<"L","i","b","r","a","r","y">>)>>),
        images |-> PyList(<<PyStr(ImageNo(1)), PyStr(<<"f","t","p",":","/","/","x",".","i","n","/","a",".","p","n","g">>),
                            PyStr(ImageNo(1))>>)])

\* Each of the seven scored fields present or absent.
PresenceInputs ==
  {Dict([f \in present |->
           CASE f = "name" -> TestCollege
             [] f = "location" -> SomeLocation
             [] f = "phone" -> PyList(<<PyStr(<<"+","9","1"," ","9","8","7","6","5"," ","4","3","2","1","0">>)>>)
             [] f = "email" -> PyList(<<PyStr(<<"I","n","f","o","@","X",".","i","n">>)>>)
             [] f = "courses" -> PyList(<<PyStr(<<"M","B","A"," ","F","i","n","a","n","c","e">>)>>)
             [] f = "facilities" -> PyList(<<PyStr(<<"L","i","b","r","a","r","y">>)>>)
             [] f = "description" -> SomeDescription]) :
     present \in SUBSET {"name", "location", "phone", "email", "courses", "facilities",
                         "description"}}

NameInputs ==
  {Dict([name |-> n]) :
     n \in {PyStr(<<>>), PyStr(<<"@","@","@">>), PyStr(<<" ","#"," ">>), PyInt(5), PyInt(0), PyNone,
            PyList(<<PyStr(<<"x">>)>>), PyStr(<<"c","o","l","l","e","g","e"," ","o","f"," ","e","n","g","i","n","e","e","r","i","n","g">>),
            PyStr(<<"A","B","C"," "," "," "," ","C","o","l","l","e","g","e">>), PyStr(<<"M","I","T">>), PyStr(<<"S","t","."," ","M","a","r","y","'","s"," "," ","c","o","l","l","e","g","e">>),
            PyStr(<<"U","n","i","v","e","r","s","i","t","y"," ","o","f"," ","M","y","s","o","r","e">>)}}

\* Field values of the wrong type, with the four fields the minimal record keeps.
WrongTypeInputs ==
  LET kept == {[name |-> TestCollege, location |-> SomeLocation,
                description |-> SomeDescription, source_url |-> SomeUrl],
               [name |-> PyStr(<<>>)],
               [location |-> SomeLocation],
               [description |-> PyStr(Rep("a", MaxDescription + DescSlack))]}
      bad == {[phone |-> PyInt(5)], [email |-> PyInt(5)], [website |-> PyInt(7)],
              [website |-> PyList(<<PyStr(<<"x",".","i","n">>)>>)], [courses |-> PyInt(1)],
              [facilities |-> PyInt(1)], [images |-> PyInt(1)],
              [source_url |-> PyNone], [source_url |-> PyInt(5)],
              [phone |-> PyStr(<<"9","8","7","6","5","4","3","2","1","0">>)], [courses |-> PyStr(<<"M","B","A">>)],
              [phone |-> PyList(<<PyInt(5), PyNone>>)], [established |-> PyInt(1995)],
              [source_url |-> PyList(<<PyStr(<<".","e","d","u">>)>>)], [address |-> PyInt(5)]}
  IN  {Dict([f \in DOMAIN k \cup DOMAIN b |-> IF f \in DOMAIN b THEN b[f] ELSE k[f]]) :
         k \in kept, b \in bad}

\* Raw values that are no dict.
NonDictInputs == {PyNone, PyInt(3), PyList(<<>>), PyStr(<<"x">>)}

\* Lists around each cleaner's limit, and lists that repeat a value.
ListInputs ==
  UNION {
    {Dict([phone |-> ListOf(PhoneNo, n)]) : n \in (MaxPhones - 1)..(MaxPhones + MaxOver)},
    {Dict([email |-> ListOf(EmailNo, n)]) : n \in (MaxEmails - 1)..(MaxEmails + MaxOver)},
    {Dict([courses |-> ListOf(CourseNo, n)]) : n \in (MaxCourses - 1)..(MaxCourses + MaxOver)},
    {Dict([facilities |-> ListOf(FacilityNo, n)]) :
        n \in (MaxFacilities - 1)..(MaxFacilities + MaxOver)},
    {Dict([images |-> ListOf(ImageNo, n)]) : n \in (MaxImages - 1)..(MaxImages + MaxOver)},
    {Dict([phone |-> PyList(<<PyStr(<<"+","9","1"," ","9","8","7","6","5"," ","4","3","2","1","0">>), PyStr(<<"1","2","3","4","5">>),
                              PyStr(<<"0","9","8","7","6","5","4","3","2","1","0">>), PyStr(PhoneNo(1))>>)]),
     Dict([email |-> PyList(<<PyStr(<<"a","@","x",".","i","n">>), PyStr(<<" ","A","@","X",".","I","N"," ">>), PyStr(<<"a","@","x">>),
                              PyStr(<<"b","@","y",".","o","r","g">>)>>)]),
     Dict([courses |-> PyList(<<PyStr(<<"M","B","A"," ","F","i","n","a","n","c","e">>), PyStr(<<"B","S","c"," ","P","h","y","s","i","c","s">>),
                                PyStr(<<"M","B","A"," ","F","i","n","a","n","c","e">>)>>)]),
     Dict([facilities |-> PyList(<<PyStr(<<"L","i","b","r","a","r","y">>), PyStr(<<"L","i","b","r","a","r","y">>)>>)]),
     Dict([images |-> PyList(<<PyStr(ImageNo(1)), PyStr(<<"f","t","p",":","/","/","x",".","i","n","/","a",".","p","n","g">>),
                               PyStr(ImageNo(1))>>)]),
     Dict([courses |-> PyList(<<PyStr(<<"a","b">>), PyStr(<<"#","#">>), PyInt(3)>>)]),
     Dict([facilities |-> PyList(<<PyStr(<<"x">>)>>)]),
     Dict([courses |-> ScenarioCourses]),
     RepeatInput,
     Dict([facilities |-> PyList(<<PyStr(<<"B","o","y","s"," ","H","o","s","t","e","l">>), PyStr(<<"C","o","m","p","u","t","e","r"," ","L","a","b">>),
                                   PyStr(<<"F","r","e","e"," ","W","i","F","i">>), PyStr(<<"T","e","m","p","l","e">>)>>)])}}

\* Descriptions and addresses around their limits.
TextInputs ==
  UNION {
    {Dict([description |-> PyStr(Rep("a", n) \o <<".">> \o Rep("b", m))]) :
        n \in (MaxDescription - DescSlack)..(MaxDescription + DescSlack), m \in {0, 5}},
    {Dict([description |-> PyStr(Rep("a", MaxDescription + n))]) : n \in 0..DescSlack},
    {Dict([description |-> PyStr(Rep("a", 200) \o <<"."," ">> \o Rep("b", 200) \o <<"."," ">>
                                 \o Rep("c", 100 + n) \o <<".">>)]) : n \in 0..DescSlack},
    {Dict([address |-> PyStr(Rep("a", MaxAddress + n))]) : n \in 0..MaxOver},
    {Dict([address |-> PyStr(<<"1","2"," ","M","G"," ","R","o","a","d",","," ","P","i","n"," ","C","o","d","e",":"," ","5","6","0","0","0","1"," ","B","a","n","g","a","l","o","r","e">>)]),
     Dict([address |-> PyStr(<<"z","i","p"," ","5","7","0","0","0","1">>)]),
     Dict([location |-> PyStr(Rep("x", MaxLocation + 1))]),
     Dict([location |-> PyStr(Rep("x", CityWindow + 5) \o <<" ","H","u","b","l","i"," ">> \o Rep("y", CityWindow + 5))]),
     Dict([location |-> PyStr(<<"U","d","u","p","i"," ","T","o","w","n">>)]),
     Dict([established |-> PyStr(<<"E","s","t","d","."," ","2","9","9","9">>)]),
     Dict([established |-> PyStr(<<"E","s","t","d","."," ","1","9","9","5">>)]),
     Dict([website |-> PyStr(<<"e","x","a","m","p","l","e",".","e","d","u",".","i","n">>)]),
     Dict([website |-> PyStr(<<" ","h","t","t","p",":","/","/","x",".","i","n","/","a"," ">>)]),
     Dict([website |-> PyStr(<<"/">>)]),
     Dict([affiliation |-> PyStr(<<"A","f","f","i","l","i","a","t","e","d"," ","t","o"," ","V","T","U",","," ","B","e","l","g","a","u","m">>)]),
     Dict([affiliation |-> PyStr(Rep("z", MaxAffiliation + 1))]),
     Dict([source_url |-> PyStr(<<"h","t","t","p","s",":","/","/","w","w","w",".","s","h","i","k","s","h","a",".","c","o","m","/","c">>)])}}

\* str.upper()
Upper(s) == [i \in 1..Len(s) |-> ToUpperCh(s[i])]

\* The keywords of one category of a keyword table as labels, in upper case, then
\* each keyword followed by the first keyword of every category of the table.
KeywordLabels(table, k) ==
  [n \in 1..Len(table[k].keywords) |-> PyStr(Upper(table[k].keywords[n]))]
  \o [j \in 1..Len(table) |->
        PyStr(table[k].keywords[Len(table[k].keywords)] \o <<" ">> \o table[j].keywords[1])]

\* Course and facility lists whose labels hold keywords of one or of two categories.
KeywordInputs ==
  {Dict([courses |-> PyList(KeywordLabels(course_categories, k))]) :
     k \in 1..Len(course_categories)}
  \cup {Dict([facilities |-> PyList(KeywordLabels(facility_categories, k))]) :
          k \in 1..Len(facility_categories)}

\* Raw established values: years inside, at the ends of and outside the valid
\* range, with and without text around them, as strings and as integers.
YearInputs ==
  {Dict([established |-> y]) :
     y \in {PyStr(<<"2","0","2","6">>), PyStr(<<"2","0","2","7">>), PyStr(<<"1","9","0","0">>), PyStr(<<"1","8","9","9">>), PyStr(<<"1","8","0","0">>),
            PyStr(<<"2","0","0","0">>), PyStr(<<"2","0","9","9">>), PyStr(<<"F","o","u","n","d","e","d"," ","i","n"," ","1","9","4","7",","," ","r","e","b","u","i","l","t"," ","i","n"," ","1","9","9","0">>),
            PyStr(<<"s","i","n","c","e"," ","2","0","3","0"," ","o","r"," ","1","9","8","5">>), PyStr(<<"i","n"," ","2","0","2","6","1">>), PyStr(<<"x","1","9","9","5">>), PyStr(<<"1","9","9","5","x">>),
            PyStr(<<"1","9","9">>), PyStr(<<" ","1","9","6","3"," ">>), PyStr(<<"e","s","t",".","1","9","7","9",".">>), PyStr(<<"n","i","n","e","t","e","e","n">>),
            PyStr(<<>>), PyInt(2026), PyInt(2027), PyInt(1963), PyInt(0), PyInt(19630),
            PyNone}}

\* Raw website values: with and without a scheme, with and without a host.
WebsiteInputs ==
  {Dict([website |-> PyStr(w)]) :
     w \in { <<"h","t","t","p","s",":","/","/","x",".","i","n">>, <<"h","t","t","p",":","/","/","x",".","i","n","/","a","?","b","#","c">>, <<"w","w","w",".","r","v","c","e",".","e","d","u",".","i","n","/","h","o","m","e">>, <<"f","t","p",":","/","/","x",".","i","n">>,
             <<"H","T","T","P",":","/","/","X",".","i","n">>, <<"m","a","i","l","t","o",":","a","@","x",".","i","n">>, <<"h","t","t","p",":","/","x",".","i","n">>, <<"h","t","t","p",":","/","/">>, <<"h","t","t","p","s",":","/","/">>,
             <<"h","t","t","p","s",":","/","/","/","p","a","t","h">>, <<"a"," ","b">>, <<"x">>, <<"?","q">>, <<"#","f">>, <<":","/","/","x">>, <<" "," ">> }}

\* Raw records whose cleaned values a second cleaning could change: phone numbers
\* with more than one leading '0', a name in one case, a location around a city.
AgainInputs ==
  {Dict([phone |-> PyList(<<PyStr(<<"0","0","1","2","3","4","5","6">>)>>)]),
   Dict([phone |-> PyList(<<PyStr(<<"0","0","1","2","3","4","5","6","7","8">>), PyStr(<<"0","8","0","-","2","3","4","5","6","7","8">>)>>)]),
   Dict([name |-> PyStr(<<"s","t","."," ","j","o","s","e","p","h","'","s"," ","c","o","l","l","e","g","e">>), location |-> PyStr(<<"N","e","a","r"," ","T","o","w","n"," ","H","a","l","l",","," ","M","Y","S","O","R","E"," ","5","7","0","0","0","1">>),
         phone |-> PyList(<<PyStr(<<"+","9","1"," ","9","8","7","6","5"," ","4","3","2","1","0">>)>>),
         email |-> PyList(<<PyStr(<<"I","n","f","o","@","X",".","i","n">>)>>), website |-> PyStr(<<"e","x","a","m","p","l","e",".","e","d","u",".","i","n">>),
         courses |-> PyList(<<PyStr(<<"M","B","A"," ","F","i","n","a","n","c","e">>)>>), facilities |-> PyList(<<PyStr(<<"L","i","b","r","a","r","y">>)>>),
         description |-> SomeDescription, established |-> PyStr(<<"E","s","t","d","."," ","1","9","9","5">>),
         affiliation |-> PyStr(<<"A","f","f","i","l","i","a","t","e","d"," ","t","o"," ","V","T","U",","," ","B","e","l","g","a","u","m">>), source_url |-> SomeUrl,
         images |-> PyList(<<PyStr(ImageNo(1))>>)])}

\* Raw image lists: URLs that end in an image extension, that hold one elsewhere,
\* that hold none, and values that are no absolute http(s) URL.
ImageInputs ==
  {Dict([images |-> PyList(<<PyStr(<<"h","t","t","p","s",":","/","/","x",".","i","n","/","c",".","w","e","b","p">>), PyStr(<<" ","h","t","t","p",":","/","/","x",".","i","n","/","b",".","J","P","G"," ">>),
                             PyStr(<<"h","t","t","p","s",":","/","/","x",".","i","n","/","d",".","g","i","f">>), PyStr(<<"/","/","c","d","n",".","x",".","i","n","/","a",".","p","n","g">>), PyNone,
                             PyStr(<<"l","o","g","o",".","p","n","g">>), PyStr(<<"H","T","T","P","S",":","/","/","x",".","i","n","/","h",".","p","n","g">>)>>)]),
   Dict([images |-> PyList(<<PyStr(<<"h","t","t","p","s",":","/","/","x",".","i","n","/","a",".","j","p","e","g">>), PyStr(<<"h","t","t","p","s",":","/","/","x",".","i","n","/","e",".","p","n","g","?","s","i","z","e","=","2">>)>>)]),
   Dict([images |-> PyList(<<PyStr(<<"h","t","t","p","s",":","/","/","x",".","i","n","/",".","j","p","g","/","v","i","e","w">>), PyStr(<<"f","t","p",":","/","/","x",".","i","n","/","g",".","p","n","g">>)>>)]),
   Dict([images |-> PyList(<<PyStr(<<"h","t","t","p","s",":","/","/","x",".","i","n","/","f",".","j","p","e","g",".","h","t","m","l">>)>>)])}

\* Records for the completeness of data_quality: a phone list whose only number
\* is invalid, and a record with the five required fields valid.
QualityInputs ==
  {Dict([name |-> PyStr(<<"T","e","s","t"," ","C","o","l","l","e","g","e">>), phone |-> PyList(<<PyStr(<<"1","2","3">>)>>)]),
   Dict([name |-> PyStr(<<"T","e","s","t"," ","C","o","l","l","e","g","e">>), location |-> PyStr(<<"M","y","s","o","r","e">>),
         courses |-> PyList(<<PyStr(<<"M","B","A"," ","F","i","n","a","n","c","e">>)>>),
         phone |-> PyList(<<PyStr(<<"+","9","1"," ","9","8","7","6","5"," ","4","3","2","1","0">>)>>),
         description |-> PyStr(<<"A"," ","c","o","l","l","e","g","e"," ","i","n"," ","M","y","s","o","r","e",".">>)])}

\* A course list with one course of the first category and, after it, two later
\* categories that share the largest number of courses.
TypeInputs ==
  {Dict([courses |-> PyList(<<PyStr(<<"B",".","T","e","c","h"," ","C","i","v","i","l">>)>>
                            \o [i \in 1..(MaxCourses \div 2) |-> PyStr(CourseNo(3 * i))]
                            \o [i \in 1..(MaxCourses \div 2) |-> PyStr(CourseNo(3 * i + 2))])])}

RawInputs == PresenceInputs \cup NameInputs \cup WrongTypeInputs \cup NonDictInputs
             \cup ListInputs \cup TextInputs \cup KeywordInputs
             \cup YearInputs \cup WebsiteInputs \cup AgainInputs \cup ImageInputs
             \cup QualityInputs \cup TypeInputs

----------------------------------------------------------------------------
(* The cleaner as a state machine: a caller hands it a raw value, and the call
   returns a record or raises. *)

\* The threads that call clean_college_data on the one DataProcessor.
Threads == {"t1", "t2"}

\* The attributes __init__ sets, as the cleaning steps read them.
self_after_init ==
  [course_categories |-> course_categories, facility_categories |-> facility_categories]

Init ==
  /\ pc = "idle"
  /\ raw = PyNone
  /\ out = PyNone
  /\ again = PyNone
  /\ fn = "none"
  /\ arg = <<>>
  /\ ret = PyNone
  /\ spc = "idle"
  /\ todo = <<>>
  /\ html = PyNone
  /\ college_info = Ok(PyNone)
  /\ colleges_data = <<>>
  /\ scraped_urls = {}
  /\ self = self_after_init
  /\ calls = [t \in Threads |-> [pos |-> "idle", given |-> PyNone, raw_data |-> PyNone,
                                    cleaned_data |-> PyNone, result |-> PyNone]]
  /\ gen = [pos |-> "idle", max_retries |-> 0, attempt |-> 0, responses |-> <<>>,
            ret |-> PyNone]
  /\ proc = [pos |-> "idle", scraped_data |-> <<>>, i |-> 0, processed_colleges |-> <<>>,
             colleges |-> <<>>, summary |-> <<>>, errors |-> <<>>]
  /\ inter = [pos |-> "idle", college_name |-> <<>>, known_college |-> 0, scraped_data |-> PyNone,
              college_data_list |-> <<>>, clean_data |-> PyNone]

\* A caller passes raw_data.
Receive ==
  /\ pc = "idle"
  /\ \E r \in RawInputs : raw' = r
  /\ pc' = "ready"
  /\ UNCHANGED <<out, again>>
  /\ UNCHANGED <<call_vars, scraper_vars, thread_vars, gen_vars, proc_vars, inter_vars>>

\* The record returned written as a raw record: the thirteen fields a raw record
\* shares with it, courses and facilities as their lists of items.
Reserialize(record) ==
  Dict([name |-> record.name,
        location |-> record.location,
        address |-> PyStr(record.address),
        phone |-> PyList([i \in 1..Len(record.phone) |-> PyStr(record.phone[i])]),
        email |-> PyList([i \in 1..Len(record.email) |-> PyStr(record.email[i])]),
        website |-> PyStr(record.website),
        courses |-> PyList([i \in 1..Len(record.courses.courses) |->
                              PyStr(record.courses.courses[i])]),
        facilities |-> PyList([i \in 1..Len(record.facilities.facilities) |->
                                 PyStr(record.facilities.facilities[i])]),
        description |-> record.description,
        established |-> PyStr(record.established),
        affiliation |-> PyStr(record.affiliation),
        source_url |-> record.source_url,
        images |-> PyList([i \in 1..Len(record.images) |-> PyStr(record.images[i])])])

\* DataProcessor.clean_college_data(raw_data) runs to its return or to the
\* exception that leaves it.  The caller calls it on the raw record, and then
\* once more on the record returned, written as a raw record.
Clean ==
  /\ pc \in {"ready", "done"}
  /\ \E raw_data \in {IF pc = "ready" THEN raw ELSE Reserialize(out)} :
       LET result == clean_college_data(raw_data)
       IN  IF pc = "ready"
           THEN /\ IF result.ok
                   THEN pc' = "done" /\ out' = result.val
                   ELSE pc' = "raised" /\ UNCHANGED out
                /\ UNCHANGED again
           ELSE /\ IF result.ok
                   THEN pc' = "again" /\ again' = result.val
                   ELSE pc' = "raised again" /\ UNCHANGED again
                /\ UNCHANGED out
  /\ UNCHANGED raw
  /\ UNCHANGED <<call_vars, scraper_vars, thread_vars, gen_vars, proc_vars, inter_vars>>

Next == Receive \/ Clean

Spec == Init /\ [][Next]_vars

----------------------------------------------------------------------------
(* Properties of the cleaner *)

Returned == pc = "done"

\* No value occurs twice in the sequence s.
NoDup(s) == \A i, j \in 1..Len(s) : i # j => s[i] # s[j]

\* One of the cleaners of the try block of clean_college_data raises on raw.
AnyCleanerRaises ==
  /\ raw.t = "dict"
  /\ \/ ~clean_phone_numbers(Get(raw, "phone", PyList(<<>>))).ok
     \/ ~clean_email_addresses(Get(raw, "email", PyList(<<>>))).ok
     \/ ~clean_website_url(Get(raw, "website", PyStr(<<>>))).ok
     \/ ~clean_and_categorize_courses(Get(raw, "courses", PyList(<<>>))).ok
     \/ ~clean_and_categorize_facilities(Get(raw, "facilities", PyList(<<>>))).ok
     \/ ~clean_image_urls(Get(raw, "images", PyList(<<>>))).ok
     \/ ~assess_data_quality(raw).ok

\* C1: clean never raises, whatever raw value it is given: every call returns a
\* record.  The code breaks it: a raw value that is no dict makes the first
\* statement of the try block raise, and the except handler raises in turn.
C1_NeverRaises == pc # "raised"

\* C2: whenever a field cleaner fails on a raw record, the record returned is the
\* minimal record: name (default 'Unknown College'), location, description and
\* source_url as in the raw input, address, website, established and affiliation
\* empty, no phones, emails, images, course items or facility items, college_type
\* 'General', completeness_score 0.1 and data_quality {0.1, low, recent, low}.
C2_DegradedIsMinimal ==
  (Returned /\ AnyCleanerRaises) =>
    /\ out.name = (IF raw.v.name = Missing THEN PyStr(UnknownCollege) ELSE raw.v.name)
    /\ out.location = (IF raw.v.location = Missing THEN PyStr(<<>>) ELSE raw.v.location)
    /\ out.description = (IF raw.v.description = Missing THEN PyStr(<<>>) ELSE raw.v.description)
    /\ out.source_url = (IF raw.v.source_url = Missing THEN PyStr(<<>>) ELSE raw.v.source_url)
    /\ out.address = <<>> /\ out.website = <<>>
    /\ out.established = <<>> /\ out.affiliation = <<>>
    /\ out.phone = <<>> /\ out.email = <<>> /\ out.images = <<>>
    /\ out.courses.courses = <<>> /\ out.courses.categories = <<>>
    /\ out.courses.total_courses = 0
    /\ out.facilities.facilities = <<>> /\ out.facilities.categories = <<>>
    /\ out.facilities.total_facilities = 0
    /\ out.college_type = "General"
    /\ out.completeness_score = 10
    /\ out.data_quality = [completeness |-> 10, accuracy |-> "low",
                           freshness |-> "recent", reliability |-> "low"]

\* The phone field is a non-iterable value, the four kept fields are present, and
\* the call has returned.
C2_Witness ==
  /\ Returned /\ AnyCleanerRaises
  /\ raw.v.phone = PyInt(5)
  /\ raw.v.name = TestCollege /\ raw.v.source_url = SomeUrl
  /\ out.completeness_score = 10

\* C3: on the normal and on the degraded path the record returned has at most 5
\* phones, 3 emails, 20 course items, 15 facility items, 5 images and an address
\* of at most 200 characters.
C3_Bounded ==
  Returned =>
    /\ Len(out.phone) <= 5
    /\ Len(out.email) <= 3
    /\ Len(out.courses.courses) <= 20
    /\ Len(out.facilities.facilities) <= 15
    /\ Len(out.images) <= 5
    /\ Len(out.address) <= 200

\* A raw list of more than 5 valid, distinct phone numbers has been cut to 5.
C3_Witness ==
  /\ Returned /\ raw.t = "dict" /\ raw.v.phone.t = "list"
  /\ Len(raw.v.phone.v) > 5
  /\ Len(out.phone) = 5

\* C4: the description of the record returned has at most 500 characters, on the
\* normal and on the degraded path.  The code breaks it: the loop of
\* clean_description tests the length before it appends the '.', so a first
\* sentence of exactly 500 characters gives 501; and the minimal record carries
\* the raw description uncut.
C4_DescriptionBounded == Returned => Len(out.description.v) <= 500

\* C5: the name of the record returned is never empty.  The code breaks it: a
\* name that clean_text empties (only stripped characters, or no string) is
\* returned empty, and the minimal record carries an empty raw name.
C5_NameNeverEmpty == Returned => (IsStr(out.name) /\ Len(out.name.v) > 0)

\* The sum of the weights of the fields that are non-empty in the record o,
\* courses and facilities counting when they hold an item.
WeightSum(o) ==
    (IF Len(o.name.v) > 0 THEN 20 ELSE 0)
  + (IF Len(o.location.v) > 0 THEN 15 ELSE 0)
  + (IF Len(o.phone) > 0 THEN 15 ELSE 0)
  + (IF Len(o.email) > 0 THEN 10 ELSE 0)
  + (IF Len(o.courses.courses) > 0 THEN 20 ELSE 0)
  + (IF Len(o.facilities.facilities) > 0 THEN 10 ELSE 0)
  + (IF Len(o.description.v) > 0 THEN 10 ELSE 0)

\* C6: completeness_score is the sum of the weights of the fields that are
\* non-empty in the record returned, courses and facilities counting only when
\* they hold an item; a raw record with only name = 'Test College' gives 0.20, and
\* data_quality.completeness 0.20.  The code breaks it: calculate_completeness
\* tests the courses and facilities dicts, which always hold keys, so their
\* weights are always added (0.50 for the record with only a name).
C6_CompletenessIsWeightSum ==
  Returned =>
    /\ out.completeness_score = WeightSum(out)
    /\ raw = Dict([name |-> TestCollege]) =>
         (out.completeness_score = 20 /\ out.data_quality.completeness = 20)

\* C7: completeness_score and data_quality.completeness of the record returned
\* lie in [0, 1] (0 to 100 hundredths).
C7_ScoresInUnitInterval ==
  Returned =>
    /\ 0 <= out.completeness_score /\ out.completeness_score <= 100
    /\ 0 <= out.data_quality.completeness /\ out.data_quality.completeness <= 100

\* All seven scored fields are present: both scores are at their maximum.
C7_Witness ==
  /\ Returned
  /\ out.completeness_score = 100
  /\ out.data_quality.completeness = 100

C9_NoEmptyCategory ==
  Returned =>
    /\ \A k \in 1..Len(out.courses.categories) : Len(out.courses.categories[k].items) > 0
    /\ \A k \in 1..Len(out.facilities.categories) : Len(out.facilities.categories[k].items) > 0

\* Courses and facilities were given and classified: some categories of each
\* table got items, the others were dropped.
C9_Witness ==
  /\ Returned
  /\ out.courses.total_courses > 0 /\ out.facilities.total_facilities > 0
  /\ Len(out.courses.categories) \in 1..Len(course_categories)
  /\ Len(out.facilities.categories) \in 1..Len(facility_categories)

\* The pairs of a categories dict, as a set.
CategoryPairs(categories) == {categories[k] : k \in 1..Len(categories)}

\* C10, as stated: the courses 'B.Tech Computer Science', 'MBA Finance' and
\* 'Painting Workshop' are categorized as Computer Science, Management and Other.
\* It fails: 'computer science' is a keyword of Engineering too, and Engineering is
\* declared first.
C10_ScenarioAsStated ==
  (Returned /\ raw.t = "dict" /\ raw.v.courses = ScenarioCourses) =>
    CategoryPairs(out.courses.categories) =
      {[category |-> "Computer Science", items |-> << <<"B",".","T","e","c","h"," ","C","o","m","p","u","t","e","r"," ","S","c","i","e","n","c","e">> >>],
       [category |-> "Management", items |-> << <<"M","B","A"," ","F","i","n","a","n","c","e">> >>],
       [category |-> "Other", items |-> << <<"P","a","i","n","t","i","n","g"," ","W","o","r","k","s","h","o","p">> >>]}

\* C10, amended: they are categorized as Engineering, Management and Other.
C10_ScenarioFirstMatch ==
  (Returned /\ raw.t = "dict" /\ raw.v.courses = ScenarioCourses) =>
    CategoryPairs(out.courses.categories) =
      {[category |-> "Engineering", items |-> << <<"B",".","T","e","c","h"," ","C","o","m","p","u","t","e","r"," ","S","c","i","e","n","c","e">> >>],
       [category |-> "Management", items |-> << <<"M","B","A"," ","F","i","n","a","n","c","e">> >>],
       [category |-> "Other", items |-> << <<"P","a","i","n","t","i","n","g"," ","W","o","r","k","s","h","o","p">> >>]}

\* The scenario's course list has been cleaned.
C10_Witness ==
  /\ Returned /\ raw.t = "dict" /\ raw.v.courses = ScenarioCourses
  /\ out.courses.total_courses = 3

\* Some keyword of entry k of the keyword table occurs in the label.
KeywordOccurs(label_lower, table, k) ==
  \E n \in 1..Len(table[k].keywords) : Contains(label_lower, table[k].keywords[n])

\* category is the category the label belongs to by first match: the category of
\* the first entry of the table a keyword of which occurs in the label, and
\* 'Other' exactly when no keyword of any entry occurs.
IsFirstMatch(label_lower, table, category) ==
  IF \A k \in 1..Len(table) : ~KeywordOccurs(label_lower, table, k)
  THEN category = "Other"
  ELSE \E k \in 1..Len(table) :
         /\ table[k].category = category
         /\ KeywordOccurs(label_lower, table, k)
         /\ \A j \in 1..(k - 1) : ~KeywordOccurs(label_lower, table, j)

\* The number of labels in the lists of the pairs from index k on.
RECURSIVE CountItems(_, _)
CountItems(pairs, k) ==
  IF k > Len(pairs) THEN 0 ELSE Len(pairs[k].items) + CountItems(pairs, k + 1)

\* Every label of the categories dict is under its first-match category, under
\* no other, and the lists hold as many labels as were accepted.
FirstMatchCategories(categories, table, total) ==
  /\ \A k \in 1..Len(categories) : \A i \in 1..Len(categories[k].items) :
       IsFirstMatch(Lower(categories[k].items[i]), table, categories[k].category)
  /\ \A k, j \in 1..Len(categories) :
       k # j => SeqRange(categories[k].items) \cap SeqRange(categories[j].items) = {}
  /\ CountItems(categories, 1) = total

\* C11: classification is first-match in declaration order (courses: Engineering,
\* Medical, Management, Arts, Science, Commerce, Computer Science, Law; facilities:
\* Academic, Accommodation, Recreation, Technology, Healthcare, Transportation):
\* every accepted label is under the first category of the table that has a
\* keyword occurring in the lower-cased label, under 'Other' exactly when no
\* keyword of any category occurs, and under exactly one category.
C11_FirstMatch ==
  /\ [k \in 1..Len(course_categories) |-> course_categories[k].category]
       = <<"Engineering", "Medical", "Management", "Arts", "Science", "Commerce",
           "Computer Science", "Law">>
  /\ [k \in 1..Len(facility_categories) |-> facility_categories[k].category]
       = <<"Academic", "Accommodation", "Recreation", "Technology", "Healthcare",
           "Transportation">>
  /\ Returned =>
       /\ FirstMatchCategories(out.courses.categories, course_categories,
                               out.courses.total_courses)
       /\ FirstMatchCategories(out.facilities.categories, facility_categories,
                               out.facilities.total_facilities)

\* A course label with keywords of two categories ('computer science' of
\* Engineering and of Computer Science, after 'bca' of Computer Science) has been
\* put under the one declared first, and a label without keyword under 'Other'.
C11_Witness ==
  /\ Returned
  /\ \E k \in 1..Len(out.courses.categories) :
       /\ out.courses.categories[k].category = "Engineering"
       /\ \E i \in 1..Len(out.courses.categories[k].items) :
            LET label_lower == Lower(out.courses.categories[k].items[i])
            IN  /\ KeywordOccurs(label_lower, course_categories, 1)
                /\ KeywordOccurs(label_lower, course_categories, 7)
  /\ \E k \in 1..Len(out.courses.categories) : out.courses.categories[k].category = "Other"

----------------------------------------------------------------------------
(* The utility functions called on their own *)

\* The longest run of digits of the generated phone numbers.
MaxDigits == 13

PhoneDigits == <<"9","8","7","6","5","4","3","2","1","0","1","2","3","4","5","6","7","8","9","0">>

\* What a phone number is written with before its digits.
PhonePrefixes ==
  {<<>>, <<"+","9","1">>, <<"+","9","1"," ">>, <<"9","1">>, <<"0">>, <<"0","0">>, <<"+">>, <<"+","9","1","0">>, <<"0","9","1">>, <<"(","0",")">>,
   <<"+","9","1","-","9","1">>, <<"P","h",":"," ">>}

\* n digits written in one run, in two groups, or followed by a '+'.
PhoneBodies(n) ==
  LET digits == Prefix(PhoneDigits, n)
  IN  {digits,
       Prefix(digits, 5) \o <<" ">> \o Suffix(digits, 5),
       digits \o <<"+">>}

PhoneInputs ==
  {p \o b : p \in PhonePrefixes, b \in UNION {PhoneBodies(n) : n \in 0..MaxDigits}}

\* A caller passes a string to normalize_phone_number, which returns.
CallNormalizePhone ==
  /\ fn = "none"
  /\ \E phone \in PhoneInputs :
       /\ arg' = phone
       /\ ret' = normalize_phone_number(phone)
  /\ fn' = "normalize_phone_number"
  /\ UNCHANGED <<cleaner_vars, scraper_vars, thread_vars, gen_vars, proc_vars, inter_vars>>

\* The strings passed to clean_text: every string of up to three characters over
\* a letter, a space, a tab and a character outside the whitelist; texts with
\* such a character between two spaces; and each entity of html_entities alone,
\* inside a word and between words.
CleanTextChars == <<"a", " ", "\t", "@">>

CleanTextInputs ==
  UNION {[1..n -> SeqRange(CleanTextChars)] : n \in 0..Len(CleanTextChars) - 1}
  \cup { <<"a"," ","@"," ","b">>, <<"R","&","D"," "," ","L","a","b">>, <<" ","F","e","e","s",":"," ","5","0","0","0"," ","/"," ","y","e","a","r"," ">>, <<"B",".","T","e","c","h"," ","(","C","S","E",")"," ","-"," ","4"," ","y","e","a","r","s">>,
         <<"a","\t","@","\n","b">> }
  \cup UNION {{html_entities[k].entity,
               <<"T","o","m">> \o html_entities[k].entity \o <<"s">>,
               <<"A","r","t","s"," ">> \o html_entities[k].entity \o <<" ","S","c","i","e","n","c","e">>} :
              k \in 1..Len(html_entities)}

\* A caller passes a string to clean_text, which returns.
CallCleanText ==
  /\ fn = "none"
  /\ \E text \in CleanTextInputs :
       /\ arg' = text
       /\ ret' = clean_text(PyStr(text))
  /\ fn' = "clean_text"
  /\ UNCHANGED <<cleaner_vars, scraper_vars, thread_vars, gen_vars, proc_vars, inter_vars>>

UtilNext == CallNormalizePhone \/ CallCleanText

UtilSpec == Init /\ [][UtilNext]_vars

\* The characters of s that are a digit or a '+'.
OnlyDigitsAndPlus(s) == SelectSeq(s, LAMBDA c : c \in DigitSet \cup {"+"})

\* s without one country code or trunk prefix: a leading '+91', else a leading
\* '91' when s has 12 characters, else one leading '0'.
WithoutPrefix(s) ==
  IF Len(s) >= 3 /\ SubSeq(s, 1, 3) = <<"+","9","1">> THEN SubSeq(s, 4, Len(s))
  ELSE IF Len(s) = 12 /\ SubSeq(s, 1, 2) = <<"9","1">> THEN SubSeq(s, 3, 12)
  ELSE IF Len(s) >= 1 /\ s[1] = "0" THEN SubSeq(s, 2, Len(s))
  ELSE s

AllDigits(s) == \A i \in 1..Len(s) : s[i] \in DigitSet

\* C12: normalize_phone_number removes every character that is not a digit or
\* '+', then exactly one of a leading '+91', a leading '91' when the length is 12,
\* or a single leading '0'; it returns '+91-<first 5>-<last 5>' when the remainder
\* is exactly 10 digits, the remainder unchanged when it is 6 to 11 digits, and
\* none otherwise; '+91 98765 43210' and '09876543210' both give
\* '+91-98765-43210'.
C12_PhoneNormalized ==
  fn = "normalize_phone_number" =>
    LET remainder == WithoutPrefix(OnlyDigitsAndPlus(arg))
    IN  /\ (Len(remainder) = 10 /\ AllDigits(remainder)) =>
             ret = PyStr(<<"+","9","1","-">> \o SubSeq(remainder, 1, 5) \o <<"-">> \o SubSeq(remainder, 6, 10))
        /\ (Len(remainder) \in 6..11 /\ Len(remainder) # 10 /\ AllDigits(remainder)) =>
             ret = PyStr(remainder)
        /\ (Len(remainder) \notin 6..11 \/ ~AllDigits(remainder)) => ret = PyNone
        /\ arg \in {<<"+","9","1"," ","9","8","7","6","5"," ","4","3","2","1","0">>, <<"0","9","8","7","6","5","4","3","2","1","0">>} => ret = PyStr(<<"+","9","1","-","9","8","7","6","5","-","4","3","2","1","0">>)

\* The number with the trunk prefix has been normalized, and so has the number
\* with the country code.
C12_Witness ==
  /\ fn = "normalize_phone_number"
  /\ arg = <<"0","9","8","7","6","5","4","3","2","1","0">>
  /\ ret = PyStr(<<"+","9","1","-","9","8","7","6","5","-","4","3","2","1","0">>)

\* The number a string of digits is the decimal notation of.
DecimalValue(s) ==
  LET digit(i) == CHOOSE d \in 0..9 : DigitChars[d + 1] = s[i]
  IN  1000 * digit(1) + 100 * digit(2) + 10 * digit(3) + digit(4)

\* C13: whatever the raw established value, the established field of the record
\* returned is empty or a 4-digit year string with a value between 1800 and the
\* current year inclusive; the raw value 'Estd. 2999' gives the empty string.
C13_EstablishedInRange ==
  Returned =>
    /\ \/ out.established = <<>>
       \/ /\ Len(out.established) = 4
          /\ AllDigits(out.established)
          /\ 1800 <= DecimalValue(out.established)
          /\ DecimalValue(out.established) <= current_year
    /\ (raw.t = "dict" /\ raw.v.established = PyStr(<<"E","s","t","d","."," ","2","9","9","9">>)) => out.established = <<>>

\* A raw value that holds the current year has been cleaned to that year.
C13_Witness ==
  /\ Returned /\ raw.t = "dict"
  /\ raw.v.established = PyStr(<<"2","0","2","6">>)
  /\ out.established = <<"2","0","2","6">>

SchemeChars == LowerSet \cup UpperSet \cup DigitSet \cup {"+", "-", "."}

\* The scheme of a URL: the characters before its first ':' when they are a
\* letter followed by letters, digits, '+', '-' or '.'; empty when it has none.
UrlScheme(url) ==
  LET colon == {i \in 1..Len(url) : url[i] = ":"}
      i == CHOOSE x \in colon : \A y \in colon : x <= y
  IN  IF colon # {} /\ i > 1 /\ url[1] \in LowerSet \cup UpperSet
         /\ \A j \in 1..(i - 1) : url[j] \in SchemeChars
      THEN SubSeq(url, 1, i - 1)
      ELSE <<>>

\* The host of a URL: what follows the '//' after its scheme, up to the first
\* '/', '?' or '#'; empty when it has none.
UrlHost(url) ==
  LET from == IF UrlScheme(url) = <<>> THEN 1 ELSE Len(UrlScheme(url)) + 2
      stop == {j \in (from + 2)..Len(url) : url[j] \in {"/", "?", "#"}}
      to == IF stop = {} THEN Len(url) ELSE (CHOOSE j \in stop : \A k \in stop : j <= k) - 1
  IN  IF from + 1 <= Len(url) /\ url[from] = "/" /\ url[from + 1] = "/"
      THEN SubSeq(url, from + 2, to)
      ELSE <<>>

\* C14: website cleaning prepends 'https://' only when the raw value has no
\* scheme, and keeps the value only when it parses with a non-empty host: a raw
\* value that already carries a scheme and a host is returned unchanged (but for
\* the white space around it), 'example.edu.in' becomes 'https://example.edu.in',
\* and every other value becomes the empty string.  The code breaks it: it takes
\* for a scheme only a leading 'http://' or 'https://', so a value with another
\* scheme, or with the scheme in upper case, gets 'https://' prepended and is kept.
C14_WebsiteSchemeAndHost ==
  (Returned /\ raw.t = "dict" /\ IsStr(raw.v.website) /\ ~AnyCleanerRaises) =>
    LET website == Strip(raw.v.website.v)
    IN  /\ out.website =
             (IF UrlScheme(website) # <<>> /\ UrlHost(website) # <<>> THEN website
              ELSE IF UrlScheme(website) = <<>> /\ UrlHost(HttpsScheme \o website) # <<>>
                   THEN HttpsScheme \o website
              ELSE <<>>)
        /\ website = <<"e","x","a","m","p","l","e",".","e","d","u",".","i","n">> => out.website = <<"h","t","t","p","s",":","/","/","e","x","a","m","p","l","e",".","e","d","u",".","i","n">>

\* Two Python values are equal: of one type and with one payload.
SameValue(a, b) == a.t = b.t /\ a.v = b.v

\* The fields in which two records returned by the cleaner differ.
DifferingFields(a, b) ==
  {f \in DOMAIN a :
     IF f \in {"name", "location", "description", "source_url"}
     THEN ~SameValue(a[f], b[f])
     ELSE a[f] # b[f]}

\* C15: cleaning is a fixed point on clean data: writing the record returned as a
\* raw record (its name, location, address, phones, emails, website, course
\* items, facility items, description, established, affiliation, source_url and
\* images) and cleaning that again gives a record equal to the first in every
\* field (processed_at, the time of the call, is no field of the model).  The code
\* breaks it: normalize_phone_number removes a leading '0' at each pass, the
\* course and facility counts are taken before the lists are cut, and
\* data_quality is computed from the raw record.
C15_FixedPoint == pc = "again" => DifferingFields(out, again) = {}

----------------------------------------------------------------------------
(* The page extractor and the scrape loop (src/scraper.py) *)

MaxScrapedCourses == 20
MaxScrapedImages == 5
MinParagraph == 50
MaxParagraph == 500

\* A fetched page as BeautifulSoup(html, 'html.parser') reads it:
\*   parses      whether the parser accepts the markup: it raises
\*               ParserRejectedMarkup on a marked section such as <![foo[bar]]>
\*   headings    the text of the first element found by each name selector that
\*               finds one, in the order of the selectors
\*   items       the texts of the elements found by the course selectors
\*   meta        the content of <meta name="description">, PyNone without the tag
\*   paragraphs  the texts of the <p> elements
\*   srcs        the src attribute of each <img>, PyNone without the attribute
\*   texts       the texts of the elements that hold one string, in document
\*               order: what find_all(text=...) searches and parent.get_text() gives
\* The pages of the model hold no phone number, e-mail address, place name or
\* facility list, and at most one course text, so that the order of
\* list(courses), the order of a set, plays no part.
Page(parses, headings, items, meta, paragraphs, srcs) ==
  [t |-> "html",
   v |-> [parses |-> parses, headings |-> headings, items |-> items, meta |-> meta,
          paragraphs |-> paragraphs, srcs |-> srcs, texts |-> <<>>]]

\* A page with further elements of one string each.
WithTexts(page, texts) == [page EXCEPT !.v.texts = texts]

\* college_info as extract_college_info_from_html initialises it.
empty_college_info(url) ==
  [source_url |-> url, name |-> <<>>, location |-> <<>>, address |-> <<>>, phone |-> <<>>,
   email |-> <<>>, website |-> <<>>, courses |-> <<>>, fees |-> <<>>, facilities |-> <<>>,
   description |-> <<>>, established |-> <<>>, affiliation |-> <<>>, recognition |-> <<>>,
   admission_process |-> <<>>, placement_details |-> <<>>, rankings |-> <<>>,
   student_reviews |-> <<>>, images |-> <<>>]

\* The loop over name_selectors: the first element with text that is not blank.
extract_name(headings) ==
  LET hit == {i \in 1..Len(headings) : Len(Strip(headings[i])) > 0}
  IN  IF hit = {} THEN <<>>
      ELSE clean_text(PyStr(headings[CHOOSE i \in hit : \A j \in hit : i <= j]))

\* The loop over course_selectors: the set of the cleaned texts that hold a
\* course term, as a list cut to 20.
RECURSIVE extract_courses_loop(_, _, _)
extract_courses_loop(items, i, courses) ==
  IF i > Len(items) THEN courses
  ELSE
    LET text == clean_text(PyStr(items[i]))
        terms == << <<"e","n","g","i","n","e","e","r","i","n","g">>, <<"m","e","d","i","c","a","l">>, <<"m","b","a">>, <<"b","s","c">>, <<"b","c","o","m">>, <<"b","a">>, <<"b","t","e","c","h">>, <<"m","t","e","c","h">> >>
    IN  IF (\E k \in 1..Len(terms) : Contains(Lower(text), terms[k]))
           /\ text \notin SeqRange(courses)
        THEN extract_courses_loop(items, i + 1, Append(courses, text))
        ELSE extract_courses_loop(items, i + 1, courses)

extract_courses(items) == Prefix(extract_courses_loop(items, 1, <<>>), MaxScrapedCourses)

\* The meta description, else the first paragraph of more than 50 and less than
\* 500 characters.
extract_description(meta, paragraphs) ==
  IF meta # PyNone THEN clean_text(meta)
  ELSE
    LET hit == {i \in 1..Len(paragraphs) :
                  /\ Len(clean_text(PyStr(paragraphs[i]))) > MinParagraph
                  /\ Len(clean_text(PyStr(paragraphs[i]))) < MaxParagraph}
    IN  IF hit = {} THEN <<>>
        ELSE clean_text(PyStr(paragraphs[CHOOSE i \in hit : \A j \in hit : i <= j]))

\* urljoin(base, path) for an http(s) base with a host and a path that starts
\* with one '/': the scheme and host of the base, then the path.
urljoin(base, path) ==
  (IF StartsWith(base, HttpsScheme) THEN HttpsScheme ELSE HttpScheme)
    \o UrlNetloc(base).val \o path

\* The loop over img_tags: each src that is not empty is resolved against the
\* page's url and kept when it starts with 'http' and holds an image extension;
\* then the cut to 5 images.
extract_images(srcs, url) ==
  LET resolve(src) ==
        IF StartsWith(src, <<"/","/">>) THEN <<"h","t","t","p","s",":">> \o src
        ELSE IF StartsWith(src, <<"/">>) THEN urljoin(url, src)
        ELSE src
      resolved == [i \in 1..Len(srcs) |->
                     IF Truthy(srcs[i]) THEN resolve(srcs[i].v) ELSE <<>>]
      kept(src) ==
        /\ StartsWith(src, <<"h","t","t","p">>)
        /\ \E k \in 1..Len(image_extensions) : Contains(Lower(src), image_extensions[k])
  IN  Prefix(SelectSeq(resolved, kept), MaxScrapedImages)

\* The start of the first match of r'\b(19|20)\d{2}\b' in text, 0 without a match.
FirstYearAt(text) ==
  LET hit == {i \in 1..(Len(text) - 3) :
                /\ Slice(text, i, i + 1) \in { <<"1","9">>, <<"2","0">> }
                /\ IsDigit(text[i + 2]) /\ IsDigit(text[i + 3])
                /\ (i = 1 \/ ~IsWord(text[i - 1]))
                /\ (i + 3 = Len(text) \/ ~IsWord(text[i + 4]))}
  IN  IF hit = {} THEN 0 ELSE CHOOSE i \in hit : \A j \in hit : i <= j

established_keywords ==
  << <<"e","s","t","a","b","l","i","s","h","e","d">>, <<"f","o","u","n","d","e","d">>, <<"s","t","a","r","t","e","d">>, <<"i","n","c","e","p","t","i","o","n">> >>

\* The loop over established_keywords, from keyword k on.  For one keyword the
\* elements whose text holds it are searched in document order, and the first
\* with a year ends the search of that keyword only: `break` leaves the inner
\* loop.  re.findall returns the group of each match, '19' or '20', and that is
\* what years[0] is.
RECURSIVE extract_established_loop(_, _, _)
extract_established_loop(texts, k, established) ==
  IF k > Len(established_keywords) THEN established
  ELSE
    LET hit == {i \in 1..Len(texts) :
                  /\ Contains(Lower(texts[i]), established_keywords[k])
                  /\ FirstYearAt(texts[i]) > 0}
        text == texts[CHOOSE i \in hit : \A j \in hit : i <= j]
    IN  IF hit = {} THEN extract_established_loop(texts, k + 1, established)
        ELSE extract_established_loop(texts, k + 1,
                                      Slice(text, FirstYearAt(text), FirstYearAt(text) + 1))

\* CollegeScraper.extract_college_info_from_html(html, url): Ok(college_info), or
\* Raise when an exception leaves the call.  The function has no try block, so
\* the exception of its first statement, BeautifulSoup(html, 'html.parser'),
\* leaves it.
extract_college_info_from_html(page, url) ==
  IF ~page.v.parses THEN Raise
  ELSE Ok([empty_college_info(url) EXCEPT
             !.name = extract_name(page.v.headings),
             !.courses = extract_courses(page.v.items),
             !.established = extract_established_loop(page.v.texts, 1, <<>>),
             !.description = extract_description(page.v.meta, page.v.paragraphs),
             !.images = extract_images(page.v.srcs, url)])

(* The pages and URLs of the model *)

\* How many <img> beyond the limit of 5 a generated page holds.
MaxOverImages == 1

RvceUrl == <<"h","t","t","p","s",":","/","/","w","w","w",".","r","v","c","e",".","e","d","u",".","i","n","/","a","b","o","u","t">>
BitUrl == <<"h","t","t","p",":","/","/","b","i","t","-","b","a","n","g","a","l","o","r","e",".","e","d","u",".","i","n","/">>

LongParagraph == Rep("w", MinParagraph + 1)

\* Image sources: absolute, protocol-relative, site-relative, without extension,
\* with the extension inside the URL, without scheme, with another scheme.
SomeSrcs ==
  <<PyStr(<<"h","t","t","p","s",":","/","/","x",".","i","n","/","c",".","w","e","b","p">>), PyStr(<<"/","/","c","d","n",".","x",".","i","n","/","a",".","p","n","g">>), PyStr(<<"/","i","m","g","/","b",".","J","P","G">>), PyNone,
    PyStr(<<"h","t","t","p","s",":","/","/","x",".","i","n","/","d",".","g","i","f">>), PyStr(<<>>), PyStr(<<"l","o","g","o",".","p","n","g">>)>>
LooseSrcs ==
  <<PyStr(<<"h","t","t","p","s",":","/","/","x",".","i","n","/","e",".","p","n","g","?","s","i","z","e","=","2">>), PyStr(<<"h","t","t","p","s",":","/","/","x",".","i","n","/",".","j","p","g","/","v","i","e","w">>),
    PyStr(<<"h","t","t","p","d",".","p","n","g">>), PyStr(<<"/","f",".","j","p","e","g",".","h","t","m","l">>), PyStr(<<"f","t","p",":","/","/","x",".","i","n","/","g",".","p","n","g">>)>>
ManySrcs == [i \in 1..(MaxScrapedImages + MaxOverImages) |-> PyStr(ImageNo(i))]

BasePage == Page(TRUE, << <<"R","V"," ","C","o","l","l","e","g","e"," ","o","f"," ","E","n","g","i","n","e","e","r","i","n","g">> >>, << <<"M","B","A"," ","P","r","o","g","r","a","m","m","e">>, <<"H","o","m","e">> >>,
                 PyStr(<<"A"," ","c","o","l","l","e","g","e"," ","i","n"," ","B","a","n","g","a","l","o","r","e",".">>), <<>>, SomeSrcs)

Pages ==
  {BasePage,
   Page(FALSE, << <<"R","V"," ","C","o","l","l","e","g","e"," ","o","f"," ","E","n","g","i","n","e","e","r","i","n","g">> >>, << <<"M","B","A"," ","P","r","o","g","r","a","m","m","e">> >>,
        PyStr(<<"A"," ","c","o","l","l","e","g","e"," ","i","n"," ","B","a","n","g","a","l","o","r","e",".">>), <<>>, SomeSrcs),
   Page(TRUE, <<>>, <<>>, PyNone, <<>>, <<>>),
   Page(TRUE, <<>>, <<>>, PyNone, <<>>, SomeSrcs),
   Page(TRUE, << <<" "," ">>, <<" ","B","M","S"," ","C","o","l","l","e","g","e"," ">> >>, <<>>, PyNone, <<>>, <<>>),
   Page(TRUE, << <<" "," ">> >>, << <<"M","B","A"," ","P","r","o","g","r","a","m","m","e">>, <<"M","B","A"," "," ","P","r","o","g","r","a","m","m","e">>, <<"C","o","n","t","a","c","t">> >>, PyNone, <<>>, <<>>),
   Page(TRUE, <<>>, << <<"H","o","m","e">> >>, PyStr(<<>>), << LongParagraph >>, <<>>),
   Page(TRUE, <<>>, <<>>, PyNone, << <<"S","h","o","r","t",".">>, LongParagraph, <<"S","h","o","r","t",".">> >>, LooseSrcs),
   Page(TRUE, <<>>, <<>>, PyNone, << Rep("w", MinParagraph), Rep("w", MaxParagraph) >>, <<>>),
   Page(TRUE, << <<"M","I","T">> >>, <<>>, PyNone, <<>>, LooseSrcs),
   Page(TRUE, << <<"M","I","T">> >>, <<>>, PyNone, <<>>, ManySrcs),
   WithTexts(BasePage, << <<"E","s","t","a","b","l","i","s","h","e","d"," ","i","n"," ","1","9","6","3">> >>),
   WithTexts(BasePage, << <<"F","o","u","n","d","e","d"," ","i","n"," ","1","9","4","6"," ","b","y"," ","B","M","S">>, <<"E","s","t","a","b","l","i","s","h","e","d"," ","2","0","0","1"," ","a","s"," ","a","u","t","o","n","o","m","o","u","s">> >>),
   WithTexts(BasePage, << <<"S","t","a","r","t","e","d"," ","1","2","0","1","9">>, <<"A","b","o","u","t"," ","u","s">> >>),
   WithTexts(BasePage, << <<"S","i","n","c","e"," ","i","n","c","e","p","t","i","o","n"," ","(","1","8","8","2",")"," ","a","n","d"," ","1","9","9","9">> >>),
   WithTexts(BasePage, << <<"E","S","T","A","B","L","I","S","H","E","D",":"," ","2","0","1","0",","," ","f","o","u","n","d","e","d"," ","1","9","9","9">> >>),
   WithTexts(BasePage, << <<"A","d","m","i","s","s","i","o","n","s"," ","2","0","2","5">>, <<"S","t","a","r","t","e","d"," ","w","i","t","h"," ","2","0"," ","s","t","u","d","e","n","t","s">> >>)}

\* What fetch_url returns: None (no answer, or a status other than 200), an empty
\* text, or the text of a page.
Responses == {PyNone, PyStr(<<>>)} \cup Pages

\* The URLs of the model, and the orders in which list(all_urls) can hold them:
\* all_urls is a set, so a URL is in the list once and the order is any.
Urls == {RvceUrl, BitUrl}
UrlLists == {<<>>, <<RvceUrl>>, <<BitUrl>>, <<RvceUrl, BitUrl>>, <<BitUrl, RvceUrl>>}

(* scrape_colleges *)

\* A call of scrape_colleges on the scraper, the first or a later one of the
\* session, up to its loop: all_urls is every URL of specific_urls, together with
\* the URLs the searches and the directories list that are not in
\* self.scraped_urls; colleges_data is a new list.  max_results is at least the
\* number of URLs.
ScrapeStart ==
  /\ spc \in {"idle", "returned"}
  /\ \E specific_urls \in SUBSET Urls, listed \in SUBSET Urls, urls \in UrlLists :
       /\ Len(urls) = Cardinality(SeqRange(urls))
       /\ SeqRange(urls) = specific_urls \cup {href \in listed : href \notin scraped_urls}
       /\ todo' = urls
  /\ colleges_data' = <<>>
  /\ spc' = "fetch"
  /\ UNCHANGED <<html, college_info, scraped_urls>>
  /\ UNCHANGED <<cleaner_vars, call_vars, thread_vars, gen_vars, proc_vars, inter_vars>>

\* html = await self.fetch_url(session, url)
Fetch ==
  /\ spc = "fetch" /\ todo # <<>>
  /\ \E response \in Responses : html' = response
  /\ spc' = "extract"
  /\ UNCHANGED <<todo, college_info, colleges_data, scraped_urls>>
  /\ UNCHANGED <<cleaner_vars, call_vars, thread_vars, gen_vars, proc_vars, inter_vars>>

\* `if html:` and the call of extract_college_info_from_html, up to its return or
\* to the exception that leaves it; without html the loop goes on to the next URL.
Extract ==
  /\ spc = "extract"
  /\ IF html.t = "html"
     THEN /\ college_info' = extract_college_info_from_html(html, Head(todo))
          /\ spc' = "extracted"
          /\ UNCHANGED todo
     ELSE /\ todo' = Tail(todo)
          /\ spc' = "fetch"
          /\ UNCHANGED college_info
  /\ UNCHANGED <<html, colleges_data, scraped_urls>>
  /\ UNCHANGED <<cleaner_vars, call_vars, thread_vars, gen_vars, proc_vars, inter_vars>>

\* The rest of the loop body: the record is appended when it has a name, a course
\* or a description; the exception of the call is logged by the `except` of the
\* loop, which goes on to the next URL.
Collect ==
  /\ spc = "extracted"
  /\ IF college_info.ok
        /\ (Len(college_info.val.name) > 0 \/ Len(college_info.val.courses) > 0
            \/ Len(college_info.val.description) > 0)
     THEN /\ colleges_data' = Append(colleges_data, college_info.val)
          /\ scraped_urls' = scraped_urls \cup {Head(todo)}
     ELSE UNCHANGED <<colleges_data, scraped_urls>>
  /\ todo' = Tail(todo)
  /\ spc' = "fetch"
  /\ UNCHANGED <<html, college_info>>
  /\ UNCHANGED <<cleaner_vars, call_vars, thread_vars, gen_vars, proc_vars, inter_vars>>

\* return colleges_data
ScrapeReturn ==
  /\ spc = "fetch" /\ todo = <<>>
  /\ spc' = "returned"
  /\ UNCHANGED <<todo, html, college_info, colleges_data, scraped_urls>>
  /\ UNCHANGED <<cleaner_vars, call_vars, thread_vars, gen_vars, proc_vars, inter_vars>>

ScrapeNext == ScrapeStart \/ Fetch \/ Extract \/ Collect \/ ScrapeReturn

ScrapeSpec == Init /\ [][ScrapeNext]_vars

\* C16: when an internal fault occurs while extracting from a page,
\* extract_college_info_from_html still returns a record with source_url set and
\* every other field empty: no exception of the extraction reaches the caller, and
\* no fetched page is lost.  The code breaks it: the function has no handler, so
\* the exception leaves it, and the `except` of the loop of scrape_colleges skips
\* the page.
C16_FaultGivesRecord ==
  spc = "extracted" =>
    /\ college_info.ok
    /\ ~html.v.parses => college_info.val = empty_college_info(Head(todo))

\* s.endswith(p)
EndsWith(s, p) == Len(s) >= Len(p) /\ SubSeq(s, Len(s) - Len(p) + 1, Len(s)) = p

\* An absolute http(s) URL that ends in .jpg, .jpeg, .png or .webp, in any case.
IsAbsoluteImageUrl(url) ==
  /\ StartsWith(url, <<"h","t","t","p",":","/","/">>) \/ StartsWith(url, <<"h","t","t","p","s",":","/","/">>)
  /\ \E ext \in { <<".","j","p","g">>, <<".","j","p","e","g">>, <<".","p","n","g">>, <<".","w","e","b","p">> } : EndsWith(Lower(url), ext)

\* C17: every URL kept in the images field, by the cleaner and by the extractor,
\* is an absolute URL that begins with 'http://' or 'https://' and ends in .jpg,
\* .jpeg, .png or .webp (in any case); a URL that holds such an extension
\* elsewhere is dropped.  The code breaks it: both loops test whether the
\* extension occurs anywhere in the URL, and the extractor tests the prefix
\* 'http' only.
C17_ImagesEndInExtension ==
  /\ Returned =>
       \A i \in 1..Len(out.images) : IsAbsoluteImageUrl(out.images[i])
  /\ (spc = "extracted" /\ college_info.ok) =>
       \A i \in 1..Len(college_info.val.images) :
          IsAbsoluteImageUrl(college_info.val.images[i])


----------------------------------------------------------------------------
(* Concurrent calls of clean_college_data on one DataProcessor.  __init__
   leaves three attributes besides the logger: college_keywords, which no
   method reads, and the two keyword tables.  Every other table is a local of
   the method that uses it.  A call evaluates the entries of cleaned_data one
   after the other, and the calls of several threads interleave between any
   two of these evaluations. *)

\* The statements of the try block of clean_college_data in the order Python
\* runs them: the entries of the dict display, the three computed fields, return.
steps ==
  <<"name", "location", "address", "phone", "email", "website", "courses", "facilities",
    "description", "established", "affiliation", "source_url", "images", "data_quality",
    "college_type", "location_info", "completeness_score", "return">>

StepAfter(field) == steps[(CHOOSE i \in 1..Len(steps) : steps[i] = field) + 1]

\* The value one statement of the try block computes, from the attributes of
\* self as they are now, the raw record, and the entries evaluated before it.
step_value(attrs, raw_data, cleaned_data, field) ==
  CASE field = "name" -> Ok(PyStr(clean_college_name(Get(raw_data, "name", PyStr(<<>>)))))
    [] field = "location" -> Ok(PyStr(clean_location(Get(raw_data, "location", PyStr(<<>>)))))
    [] field = "address" -> Ok(clean_address(Get(raw_data, "address", PyStr(<<>>))))
    [] field = "phone" -> clean_phone_numbers(Get(raw_data, "phone", PyList(<<>>)))
    [] field = "email" -> clean_email_addresses(Get(raw_data, "email", PyList(<<>>)))
    [] field = "website" -> clean_website_url(Get(raw_data, "website", PyStr(<<>>)))
    [] field = "courses" ->
         categorize_courses(Get(raw_data, "courses", PyList(<<>>)), attrs.course_categories)
    [] field = "facilities" ->
         categorize_facilities(Get(raw_data, "facilities", PyList(<<>>)), attrs.facility_categories)
    [] field = "description" ->
         Ok(PyStr(clean_description(Get(raw_data, "description", PyStr(<<>>)))))
    [] field = "established" ->
         Ok(clean_establishment_year(Get(raw_data, "established", PyStr(<<>>))))
    [] field = "affiliation" -> Ok(clean_affiliation(Get(raw_data, "affiliation", PyStr(<<>>))))
    [] field = "source_url" -> Ok(Get(raw_data, "source_url", PyStr(<<>>)))
    [] field = "images" -> clean_image_urls(Get(raw_data, "images", PyList(<<>>)))
    [] field = "data_quality" -> assess_data_quality(raw_data)
    [] field = "college_type" -> Ok(determine_college_type(cleaned_data.courses))
    [] field = "location_info" -> Ok(extract_location_details(cleaned_data.location.v))
    [] field = "completeness_score" -> Ok(calculate_completeness(cleaned_data))

\* The raw records of the concurrent calls: one with every list field, one whose
\* courses make the try block raise, one with text fields only.
ConcurrentInputs ==
  { Dict([name |-> PyStr(<<"R","V"," ","C","o","l","l","e","g","e"," ","o","f"," ","E","n","g","i","n","e","e","r","i","n","g">>),
          location |-> PyStr(<<"M","y","s","o","r","e"," ","R","o","a","d",","," ","B","a","n","g","a","l","o","r","e">>),
          phone |-> PyList(<<PyStr(<<"+","9","1"," ","9","8","7","6","5"," ","4","3","2","1","0">>), PyStr(<<"1","2","3">>)>>),
          courses |-> PyList(<<PyStr(<<"B",".","T","e","c","h"," ","C","i","v","i","l">>), PyStr(<<"M","B","A"," ","F","i","n","a","n","c","e">>), PyStr(<<"Y","o","g","a">>)>>),
          facilities |-> PyList(<<PyStr(<<"C","e","n","t","r","a","l"," ","L","i","b","r","a","r","y">>), PyStr(<<"H","o","s","t","e","l">>)>>),
          source_url |-> PyStr(<<"h","t","t","p","s",":","/","/","w","w","w",".","r","v","c","e",".","e","d","u",".","i","n">>)]),
    Dict([name |-> PyStr(<<"B","M","S"," ","C","o","l","l","e","g","e">>),
          courses |-> PyInt(5),
          description |-> PyStr(<<"F","o","u","n","d","e","d"," ","i","n"," ","1","9","4","6",".">>)]),
    Dict([name |-> PyStr(<<"S","t","."," ","J","o","s","e","p","h","'","s"," ","C","o","l","l","e","g","e">>),
          location |-> PyStr(<<"M","y","s","o","r","e">>),
          established |-> PyStr(<<"1","8","8","2">>),
          facilities |-> PyList(<<PyStr(<<"S","p","o","r","t","s"," ","G","r","o","u","n","d">>)>>)]) }

\* A thread calls clean_college_data(raw_data).  given is the record as the
\* caller holds it, raw_data the object the call reads.
ThreadCall(t) ==
  /\ calls[t].pos = "idle"
  /\ \E r \in ConcurrentInputs :
       calls' = [calls EXCEPT ![t] =
                   [pos |-> Head(steps), given |-> r, raw_data |-> r,
                    cleaned_data |-> [f \in SeqRange(steps) \ {"return"} |-> PyNone],
                    result |-> PyNone]]
  /\ UNCHANGED self
  /\ UNCHANGED <<cleaner_vars, call_vars, scraper_vars, gen_vars, proc_vars, inter_vars>>

\* A faulty step: categories = self.course_categories instead of a new dict, so
\* the courses are appended to the keyword lists of the shared table.
ThreadStep_aliased(t) ==
  /\ calls[t].pos \in SeqRange(steps) \ {"return"}
  /\ LET c == calls[t]
         value == step_value(self, c.raw_data, c.cleaned_data, c.pos)
         table == self.course_categories
         listed(category) ==
           LET hit == {k \in 1..Len(value.val.categories) :
                         value.val.categories[k].category = category}
           IN  IF hit = {} THEN <<>> ELSE value.val.categories[CHOOSE k \in hit : TRUE].items
     IN  /\ calls' = [calls EXCEPT ![t] =
                        IF value.ok
                        THEN [c EXCEPT !.pos = StepAfter(c.pos),
                                       !.cleaned_data[c.pos] = value.val]
                        ELSE [c EXCEPT !.pos = "except"]]
         /\ IF c.pos = "courses" /\ value.ok
            THEN self' = [self EXCEPT !.course_categories =
                            [k \in 1..Len(table) |->
                               [table[k] EXCEPT !.keywords = @ \o listed(table[k].category)]]]
            ELSE UNCHANGED self
  /\ UNCHANGED <<cleaner_vars, call_vars, scraper_vars, gen_vars, proc_vars, inter_vars>>

\* A thread runs its next statement of the try block: the entry is evaluated
\* and kept, or the evaluation raises and control passes to the except clause.
\* No cleaner assigns to an attribute of self or to raw_data.
ThreadStep(t) ==
  /\ calls[t].pos \in SeqRange(steps) \ {"return"}
  /\ LET c == calls[t]
         value == step_value(self, c.raw_data, c.cleaned_data, c.pos)
     IN  calls' = [calls EXCEPT ![t] =
                     IF value.ok
                     THEN [c EXCEPT !.pos = StepAfter(c.pos),
                                    !.cleaned_data[c.pos] = value.val]
                     ELSE [c EXCEPT !.pos = "except"]]
  /\ UNCHANGED self
  /\ UNCHANGED <<cleaner_vars, call_vars, scraper_vars, gen_vars, proc_vars, inter_vars>>

\* return cleaned_data
ThreadReturn(t) ==
  /\ calls[t].pos = "return"
  /\ calls' = [calls EXCEPT ![t] = [@ EXCEPT !.pos = "returned", !.result = calls[t].cleaned_data]]
  /\ UNCHANGED self
  /\ UNCHANGED <<cleaner_vars, call_vars, scraper_vars, gen_vars, proc_vars, inter_vars>>

\* except Exception: return self.create_minimal_clean_data(raw_data)
ThreadExcept(t) ==
  /\ calls[t].pos = "except"
  /\ calls' = [calls EXCEPT ![t] =
                 [@ EXCEPT !.pos = "returned",
                           !.result = create_minimal_clean_data(calls[t].raw_data)]]
  /\ UNCHANGED self
  /\ UNCHANGED <<cleaner_vars, call_vars, scraper_vars, gen_vars, proc_vars, inter_vars>>

ConcurrentNext ==
  \E t \in Threads : ThreadCall(t) \/ ThreadStep(t) \/ ThreadReturn(t) \/ ThreadExcept(t)

ConcurrentSpec == Init /\ [][ConcurrentNext]_vars

\* C18: calls of clean_college_data that interleave on one DataProcessor are
\* independent: the keyword tables stay as __init__ set them, every call's raw
\* record stays as its caller passed it, and every call that has returned
\* returned the record the call returns when it runs alone.
C18_CallsIndependent ==
  /\ self = self_after_init
  /\ \A t \in Threads :
       calls[t].pos # "idle" => calls[t].raw_data = calls[t].given
  /\ \A t \in Threads :
       calls[t].pos = "returned" =>
         DifferingFields(calls[t].result, clean_college_data(calls[t].given).val) = {}

\* Both calls have returned, one through the except clause, and the other one
\* ran its courses step while the first was between its first and last statement.
C18_Witness ==
  /\ \A t \in Threads : calls[t].pos = "returned"
  /\ \E t \in Threads : calls[t].result.data_quality = minimal_data_quality
  /\ \E t \in Threads : Len(calls[t].result.courses.categories) > 1


----------------------------------------------------------------------------
(* The table of known colleges and the lookup by name *)

\* KARNATAKA_COLLEGES: the key and the fields of every entry, in the order
\* of the dict display, which is the order in which .items() yields them.
KARNATAKA_COLLEGES ==
  <<
    [key |-> <<"b","a","n","g","a","l","o","r","e"," ","i","n","s","t","i","t","u","t","e"," ","o","f"," ","t","e","c","h","n","o","l","o","g","y">>,
     official_name |-> <<"B","a","n","g","a","l","o","r","e"," ","I","n","s","t","i","t","u","t","e"," ","o","f"," ","T","e","c","h","n","o","l","o","g","y">>,
     website |-> <<"h","t","t","p","s",":","/","/","w","w","w",".","b","i","t","-","b","a","n","g","a","l","o","r","e",".","e","d","u",".","i","n","/">>,
     location |-> <<"B","a","n","g","a","l","o","r","e",","," ","K","a","r","n","a","t","a","k","a">>,
     type |-> <<"E","n","g","i","n","e","e","r","i","n","g">>,
     established |-> <<"1","9","7","9">>,
     affiliation |-> <<"V","T","U">>],
    [key |-> <<"r","v"," ","c","o","l","l","e","g","e"," ","o","f"," ","e","n","g","i","n","e","e","r","i","n","g">>,
     official_name |-> <<"R",".","V","."," ","C","o","l","l","e","g","e"," ","o","f"," ","E","n","g","i","n","e","e","r","i","n","g">>,
     website |-> <<"h","t","t","p","s",":","/","/","w","w","w",".","r","v","c","e",".","e","d","u",".","i","n","/">>,
     location |-> <<"B","a","n","g","a","l","o","r","e",","," ","K","a","r","n","a","t","a","k","a">>,
     type |-> <<"E","n","g","i","n","e","e","r","i","n","g">>,
     established |-> <<"1","9","6","3">>,
     affiliation |-> <<"V","T","U">>],
    [key |-> <<"b","m","s","c","e">>,
     official_name |-> <<"B","M","S"," ","C","o","l","l","e","g","e"," ","o","f"," ","E","n","g","i","n","e","e","r","i","n","g">>,
     website |-> <<"h","t","t","p","s",":","/","/","b","m","s","c","e",".","a","c",".","i","n","/">>,
     location |-> <<"B","a","n","g","a","l","o","r","e",","," ","K","a","r","n","a","t","a","k","a">>,
     type |-> <<"E","n","g","i","n","e","e","r","i","n","g">>,
     established |-> <<"1","9","4","6">>,
     affiliation |-> <<"V","T","U">>],
    [key |-> <<"m","s"," ","r","a","m","a","i","a","h"," ","i","n","s","t","i","t","u","t","e"," ","o","f"," ","t","e","c","h","n","o","l","o","g","y">>,
     official_name |-> <<"M",".","S","."," ","R","a","m","a","i","a","h"," ","I","n","s","t","i","t","u","t","e"," ","o","f"," ","T","e","c","h","n","o","l","o","g","y">>,
     website |-> <<"h","t","t","p","s",":","/","/","m","s","r","i","t",".","e","d","u","/">>,
     location |-> <<"B","a","n","g","a","l","o","r","e",","," ","K","a","r","n","a","t","a","k","a">>,
     type |-> <<"E","n","g","i","n","e","e","r","i","n","g">>,
     established |-> <<"1","9","6","2">>,
     affiliation |-> <<"V","T","U">>],
    [key |-> <<"s","i","t">>,
     official_name |-> <<"S","i","d","d","a","g","a","n","g","a"," ","I","n","s","t","i","t","u","t","e"," ","o","f"," ","T","e","c","h","n","o","l","o","g","y">>,
     website |-> <<"h","t","t","p","s",":","/","/","s","i","t",".","a","c",".","i","n","/">>,
     location |-> <<"T","u","m","k","u","r",","," ","K","a","r","n","a","t","a","k","a">>,
     type |-> <<"E","n","g","i","n","e","e","r","i","n","g">>,
     established |-> <<"1","9","6","3">>,
     affiliation |-> <<"V","T","U">>],
    [key |-> <<"p","e","s"," ","u","n","i","v","e","r","s","i","t","y">>,
     official_name |-> <<"P","E","S"," ","U","n","i","v","e","r","s","i","t","y">>,
     website |-> <<"h","t","t","p","s",":","/","/","p","e","s",".","e","d","u","/">>,
     location |-> <<"B","a","n","g","a","l","o","r","e",","," ","K","a","r","n","a","t","a","k","a">>,
     type |-> <<"E","n","g","i","n","e","e","r","i","n","g">>,
     established |-> <<"1","9","7","2">>,
     affiliation |-> <<"A","u","t","o","n","o","m","o","u","s">>],
    [key |-> <<"m","a","n","i","p","a","l"," ","i","n","s","t","i","t","u","t","e"," ","o","f"," ","t","e","c","h","n","o","l","o","g","y">>,
     official_name |-> <<"M","a","n","i","p","a","l"," ","I","n","s","t","i","t","u","t","e"," ","o","f"," ","T","e","c","h","n","o","l","o","g","y">>,
     website |-> <<"h","t","t","p","s",":","/","/","m","a","n","i","p","a","l",".","e","d","u","/","m","i","t",".","h","t","m","l">>,
     location |-> <<"M","a","n","i","p","a","l",","," ","K","a","r","n","a","t","a","k","a">>,
     type |-> <<"E","n","g","i","n","e","e","r","i","n","g">>,
     established |-> <<"1","9","5","7">>,
     affiliation |-> <<"D","e","e","m","e","d"," ","U","n","i","v","e","r","s","i","t","y">>],
    [key |-> <<"b","a","n","g","a","l","o","r","e"," ","m","e","d","i","c","a","l"," ","c","o","l","l","e","g","e">>,
     official_name |-> <<"B","a","n","g","a","l","o","r","e"," ","M","e","d","i","c","a","l"," ","C","o","l","l","e","g","e"," ","a","n","d"," ","R","e","s","e","a","r","c","h"," ","I","n","s","t","i","t","u","t","e">>,
     website |-> <<"h","t","t","p","s",":","/","/","b","m","c","r","i",".","e","d","u",".","i","n","/">>,
     location |-> <<"B","a","n","g","a","l","o","r","e",","," ","K","a","r","n","a","t","a","k","a">>,
     type |-> <<"M","e","d","i","c","a","l">>,
     established |-> <<"1","9","5","5">>,
     affiliation |-> <<"R","G","U","H","S">>],
    [key |-> <<"m","y","s","o","r","e"," ","m","e","d","i","c","a","l"," ","c","o","l","l","e","g","e">>,
     official_name |-> <<"M","y","s","o","r","e"," ","M","e","d","i","c","a","l"," ","C","o","l","l","e","g","e"," ","&"," ","R","e","s","e","a","r","c","h"," ","I","n","s","t","i","t","u","t","e">>,
     website |-> <<"h","t","t","p","s",":","/","/","w","w","w",".","m","m","c","r","i",".","g","o","v",".","i","n","/">>,
     location |-> <<"M","y","s","o","r","e",","," ","K","a","r","n","a","t","a","k","a">>,
     type |-> <<"M","e","d","i","c","a","l">>,
     established |-> <<"1","9","2","4">>,
     affiliation |-> <<"R","G","U","H","S">>],
    [key |-> <<"k","a","r","n","a","t","a","k","a"," ","i","n","s","t","i","t","u","t","e"," ","o","f"," ","m","e","d","i","c","a","l"," ","s","c","i","e","n","c","e","s">>,
     official_name |-> <<"K","a","r","n","a","t","a","k","a"," ","I","n","s","t","i","t","u","t","e"," ","o","f"," ","M","e","d","i","c","a","l"," ","S","c","i","e","n","c","e","s">>,
     website |-> <<"h","t","t","p","s",":","/","/","k","i","m","s",".","a","c",".","i","n","/">>,
     location |-> <<"H","u","b","l","i",","," ","K","a","r","n","a","t","a","k","a">>,
     type |-> <<"M","e","d","i","c","a","l">>,
     established |-> <<"1","9","5","7">>,
     affiliation |-> <<"R","G","U","H","S">>],
    [key |-> <<"i","i","s","c">>,
     official_name |-> <<"I","n","d","i","a","n"," ","I","n","s","t","i","t","u","t","e"," ","o","f"," ","S","c","i","e","n","c","e">>,
     website |-> <<"h","t","t","p","s",":","/","/","i","i","s","c",".","a","c",".","i","n","/">>,
     location |-> <<"B","a","n","g","a","l","o","r","e",","," ","K","a","r","n","a","t","a","k","a">>,
     type |-> <<"R","e","s","e","a","r","c","h"," ","U","n","i","v","e","r","s","i","t","y">>,
     established |-> <<"1","9","0","9">>,
     affiliation |-> <<"I","n","s","t","i","t","u","t","e"," ","o","f"," ","E","m","i","n","e","n","c","e">>],
    [key |-> <<"b","a","n","g","a","l","o","r","e"," ","u","n","i","v","e","r","s","i","t","y">>,
     official_name |-> <<"B","a","n","g","a","l","o","r","e"," ","U","n","i","v","e","r","s","i","t","y">>,
     website |-> <<"h","t","t","p","s",":","/","/","b","a","n","g","a","l","o","r","e","u","n","i","v","e","r","s","i","t","y",".","a","c",".","i","n","/">>,
     location |-> <<"B","a","n","g","a","l","o","r","e",","," ","K","a","r","n","a","t","a","k","a">>,
     type |-> <<"U","n","i","v","e","r","s","i","t","y">>,
     established |-> <<"1","9","6","4">>,
     affiliation |-> <<"S","t","a","t","e"," ","U","n","i","v","e","r","s","i","t","y">>],
    [key |-> <<"m","y","s","o","r","e"," ","u","n","i","v","e","r","s","i","t","y">>,
     official_name |-> <<"U","n","i","v","e","r","s","i","t","y"," ","o","f"," ","M","y","s","o","r","e">>,
     website |-> <<"h","t","t","p","s",":","/","/","u","n","i","-","m","y","s","o","r","e",".","a","c",".","i","n","/">>,
     location |-> <<"M","y","s","o","r","e",","," ","K","a","r","n","a","t","a","k","a">>,
     type |-> <<"U","n","i","v","e","r","s","i","t","y">>,
     established |-> <<"1","9","1","6">>,
     affiliation |-> <<"S","t","a","t","e"," ","U","n","i","v","e","r","s","i","t","y">>],
    [key |-> <<"k","a","r","n","a","t","a","k","a"," ","u","n","i","v","e","r","s","i","t","y">>,
     official_name |-> <<"K","a","r","n","a","t","a","k"," ","U","n","i","v","e","r","s","i","t","y">>,
     website |-> <<"h","t","t","p","s",":","/","/","k","u","d",".","a","c",".","i","n","/">>,
     location |-> <<"D","h","a","r","w","a","d",","," ","K","a","r","n","a","t","a","k","a">>,
     type |-> <<"U","n","i","v","e","r","s","i","t","y">>,
     established |-> <<"1","9","4","9">>,
     affiliation |-> <<"S","t","a","t","e"," ","U","n","i","v","e","r","s","i","t","y">>],
    [key |-> <<"i","i","m"," ","b","a","n","g","a","l","o","r","e">>,
     official_name |-> <<"I","n","d","i","a","n"," ","I","n","s","t","i","t","u","t","e"," ","o","f"," ","M","a","n","a","g","e","m","e","n","t"," ","B","a","n","g","a","l","o","r","e">>,
     website |-> <<"h","t","t","p","s",":","/","/","w","w","w",".","i","i","m","b",".","a","c",".","i","n","/">>,
     location |-> <<"B","a","n","g","a","l","o","r","e",","," ","K","a","r","n","a","t","a","k","a">>,
     type |-> <<"M","a","n","a","g","e","m","e","n","t">>,
     established |-> <<"1","9","7","3">>,
     affiliation |-> <<"I","n","s","t","i","t","u","t","e"," ","o","f"," ","N","a","t","i","o","n","a","l"," ","I","m","p","o","r","t","a","n","c","e">>],
    [key |-> <<"c","h","r","i","s","t"," ","u","n","i","v","e","r","s","i","t","y">>,
     official_name |-> <<"C","H","R","I","S","T"," ","(","D","e","e","m","e","d"," ","t","o"," ","b","e"," ","U","n","i","v","e","r","s","i","t","y",")">>,
     website |-> <<"h","t","t","p","s",":","/","/","c","h","r","i","s","t","u","n","i","v","e","r","s","i","t","y",".","i","n","/">>,
     location |-> <<"B","a","n","g","a","l","o","r","e",","," ","K","a","r","n","a","t","a","k","a">>,
     type |-> <<"M","u","l","t","i","-","d","i","s","c","i","p","l","i","n","a","r","y">>,
     established |-> <<"1","9","6","9">>,
     affiliation |-> <<"D","e","e","m","e","d"," ","U","n","i","v","e","r","s","i","t","y">>]
  >>

\* str.split(): the words of s, the maximal runs of characters that are no whitespace
Words(s) ==
  LET starts == SelectSeq([i \in 1..Len(s) |-> i],
                          LAMBDA i : ~IsSpace(s[i]) /\ (i = 1 \/ IsSpace(s[i - 1])))
      stop(a) == CHOOSE b \in a..Len(s) :
                   /\ \A i \in a..b : ~IsSpace(s[i])
                   /\ (b = Len(s) \/ IsSpace(s[b + 1]))
  IN  [k \in 1..Len(starts) |-> Slice(s, starts[k], stop(starts[k]))]

\* The test the loop of find_college_by_name makes on one entry, search_name
\* already lower-cased and stripped.
fuzzy_match(search_name, entry) ==
  LET official_name == Lower(entry.official_name)
  IN  \/ Contains(entry.key, search_name)
      \/ Contains(search_name, entry.key)
      \/ Contains(official_name, search_name)
      \/ \E w \in 1..Len(Words(search_name)) : Contains(official_name, Words(search_name)[w])

\* find_college_by_name(search_name): the position in KARNATAKA_COLLEGES of the
\* entry returned, 0 when None is returned.
find_college_by_name(name) ==
  LET search_name == Strip(Lower(name))
      direct == {k \in 1..Len(KARNATAKA_COLLEGES) : KARNATAKA_COLLEGES[k].key = search_name}
      fuzzy == {k \in 1..Len(KARNATAKA_COLLEGES) : fuzzy_match(search_name, KARNATAKA_COLLEGES[k])}
  IN  IF direct # {} THEN CHOOSE k \in direct : TRUE
      ELSE IF fuzzy # {} THEN CHOOSE k \in fuzzy : \A j \in fuzzy : k <= j
      ELSE 0

\* The names asked for: for every entry its key, its key in upper case between
\* spaces, its official name, its key without the first character, its key
\* inside a longer phrase, and each word of its key and of its official name;
\* then names that match no entry or match entries by different tests.
EntryQueries(entry) ==
  {entry.key, <<" ", " ">> \o Upper(entry.key) \o <<" ">>, entry.official_name,
   Suffix(entry.key, 1), <<"t","h","e"," ">> \o entry.key \o <<" ","c","a","m","p","u","s">>}
  \cup SeqRange(Words(entry.key)) \cup SeqRange(Words(entry.official_name))

LookupQueries ==
  UNION {EntryQueries(KARNATAKA_COLLEGES[k]) : k \in 1..Len(KARNATAKA_COLLEGES)}
  \cup { <<>>, <<"x","y","z">>, <<"m","a","n","a","g","e","m","e","n","t"," ","b","a","n","g","a","l","o","r","e">>, <<"m","y","s","o","r","e"," ","m","e","d","i","c","a","l">>, <<"M","y","s","o","r","e"," ","M","e","d","i","c","a","l">>,
         <<"u","n","i","v","e","r","s","i","t","y"," ","o","f"," ","m","y","s","o","r","e">>, <<"k","a","r","n","a","t","a","k"," ","u","n","i","v","e","r","s","i","t","y">>, <<"b","i","t"," ","b","a","n","g","a","l","o","r","e">>,
         <<"R","V"," ","C","o","l","l","e","g","e"," ","o","f"," ","E","n","g","i","n","e","e","r","i","n","g">>, <<"i","n","d","i","a","n"," ","i","n","s","t","i","t","u","t","e">>, <<"n","i","t","k"," ","s","u","r","a","t","h","k","a","l">> }

\* A caller passes a name to find_college_by_name, which returns.
CallFindCollege ==
  /\ fn = "none"
  /\ \E name \in LookupQueries :
       /\ arg' = name
       /\ ret' = find_college_by_name(name)
  /\ fn' = "find_college_by_name"
  /\ UNCHANGED <<cleaner_vars, scraper_vars, thread_vars, gen_vars, proc_vars, inter_vars>>

LookupNext == CallFindCollege

LookupSpec == Init /\ [][LookupNext]_vars

\* The lookup rules applied one after the other, each over the whole table: the
\* entries whose key is the name; else the entries that match by substring (the
\* name contains the key or the official name, or is contained in one of them);
\* else the entries whose official name holds a word of the name.  The first
\* entry of the first rule that matches any is the answer, 0 when none does.
PriorityLookup(name) ==
  LET search_name == Strip(Lower(name))
      table == KARNATAKA_COLLEGES
      exact == {k \in 1..Len(table) : table[k].key = search_name}
      substring == {k \in 1..Len(table) :
                      \/ Contains(table[k].key, search_name)
                      \/ Contains(search_name, table[k].key)
                      \/ Contains(Lower(table[k].official_name), search_name)
                      \/ Contains(search_name, Lower(table[k].official_name))}
      token == {k \in 1..Len(table) :
                  \E w \in 1..Len(Words(search_name)) :
                     Contains(Lower(table[k].official_name), Words(search_name)[w])}
      First(hit) == CHOOSE k \in hit : \A j \in hit : k <= j
  IN  IF exact # {} THEN First(exact)
      ELSE IF substring # {} THEN First(substring)
      ELSE IF token # {} THEN First(token)
      ELSE 0

\* C19: the lookup applies its rules in strict priority over the whole table:
\* the entry returned for a name is the first entry of the first rule (exact key,
\* substring, token overlap) that matches any entry.  The code breaks it: its
\* loop makes the substring and the token test entry by entry, so an earlier
\* entry that shares a word with the name is returned before a later entry
\* whose key or official name contains the name.
C19_StrictPriority ==
  fn = "find_college_by_name" => ret = PriorityLookup(arg)


----------------------------------------------------------------------------
(* The completeness of data_quality *)

\* The required fields that are non-empty in a record the cleaner returned: a
\* text field with characters, a phone list with numbers, a course list with courses.
PresentInCleaned(record) ==
  {k \in 1..Len(required_fields) :
     CASE required_fields[k] = "courses" -> Len(record.courses.courses) > 0
       [] required_fields[k] = "phone" -> Len(record.phone) > 0
       [] OTHER -> Len(record[required_fields[k]].v) > 0}

\* C20: on the path of the try block, data_quality.completeness is the fraction
\* (in hundredths) of the five required fields name, location, courses, phone and
\* description that are non-empty in the record returned.  The code breaks it:
\* clean_college_data passes raw_data to assess_data_quality, so a raw phone list
\* whose numbers are all dropped still counts, and a missing name, which the
\* record replaces by 'Unknown College', does not.
C20_CompletenessOfCleaned ==
  (Returned /\ ~AnyCleanerRaises) =>
    out.data_quality.completeness =
      (Cardinality(PresentInCleaned(out)) * 100) \div Len(required_fields)


----------------------------------------------------------------------------
(* The establishment year of the extractor *)

\* The keywords for which an element of the page holds the keyword and a year.
KeywordsWithYear(texts) ==
  {k \in 1..Len(established_keywords) :
     \E i \in 1..Len(texts) :
        Contains(Lower(texts[i]), established_keywords[k]) /\ FirstYearAt(texts[i]) > 0}

\* The first match found: the four digits of the first year of the first element
\* that holds the earliest keyword with a year.
FirstYearFound(texts) ==
  LET k == CHOOSE x \in KeywordsWithYear(texts) : \A y \in KeywordsWithYear(texts) : x <= y
      hit == {i \in 1..Len(texts) :
                Contains(Lower(texts[i]), established_keywords[k]) /\ FirstYearAt(texts[i]) > 0}
      text == texts[CHOOSE i \in hit : \A j \in hit : i <= j]
  IN  Slice(text, FirstYearAt(text), FirstYearAt(text) + 3)

\* C21: when an element of the page mentions 'established', 'founded', 'started'
\* or 'inception' and holds a year 19xx or 20xx, established of the record
\* extracted is that complete 4-digit year, the first match found: a match under
\* a later keyword does not replace it.  The code breaks it twice: re.findall
\* returns the group '19' or '20' of the pattern, and `break` leaves only the
\* loop over the elements of one keyword.
C21_EstablishedIsFirstYear ==
  (spc = "extracted" /\ college_info.ok /\ KeywordsWithYear(html.v.texts) # {}) =>
    college_info.val.established = FirstYearFound(html.v.texts)


----------------------------------------------------------------------------
(* clean_text *)

\* C22: for every string, the text clean_text returns neither starts nor ends
\* with whitespace and holds no two whitespace characters in a row, also when
\* characters outside the whitelist stood between two spaces.  The code breaks
\* it: the whitespace runs are collapsed before the characters outside the
\* whitelist are removed, and the spaces on either side of a removed character
\* are left next to each other.
C22_NoWhitespaceRuns ==
  fn = "clean_text" =>
    /\ ret = Strip(ret)
    /\ \A i \in 1..(Len(ret) - 1) : ~(IsSpace(ret[i]) /\ IsSpace(ret[i + 1]))

\* The word characters of the name of an entity: 'amp' of '&amp;', '39' of '&#39;'.
EntityName(entity) == SelectSeq(entity, IsWord)

\* C23: clean_text decodes each entity of its table wherever it occurs: when the
\* text holds an entity, and holds the letters of its name nowhere but in
\* entities, the text returned does not hold those letters.  The code breaks it:
\* '&', '#' and ';' are outside the whitelist and are removed before the loop
\* over html_entities runs, so no entity is ever found and its name stays.
C23_EntitiesDecoded ==
  fn = "clean_text" =>
    \A k \in 1..Len(html_entities) :
      (/\ Contains(arg, html_entities[k].entity)
       /\ ~Contains(ReplaceEntities(arg, 1), EntityName(html_entities[k].entity)))
      => ~Contains(ret, EntityName(html_entities[k].entity))


----------------------------------------------------------------------------
(* college_type *)

\* The number of courses the record returned lists under a category.
CategorySize(record, category) ==
  LET hit == {k \in 1..Len(record.courses.categories) :
                record.courses.categories[k].category = category}
  IN  IF hit = {} THEN 0 ELSE Len(record.courses.categories[CHOOSE k \in hit : TRUE].items)

\* The positions, in the declaration order of the keyword table with 'Other'
\* last, of the categories that hold the largest number of courses.
LargestCategories(record) ==
  LET order == category_order(course_categories)
  IN  {k \in 1..Len(order) :
         /\ CategorySize(record, order[k]) > 0
         /\ \A j \in 1..Len(order) :
               CategorySize(record, order[j]) <= CategorySize(record, order[k])}

\* C24: college_type of the record returned is the category of
\* courses.categories with the largest number of courses, all accepted courses
\* counted; among categories that share the maximum the earliest in the
\* declaration order of the keyword table, 'Other' last; 'General' when there is
\* no category.
C24_CollegeTypeIsLargest ==
  Returned =>
    LET order == category_order(course_categories)
        best == LargestCategories(out)
    IN  /\ IF Len(out.courses.categories) = 0 THEN out.college_type = "General"
           ELSE /\ best # {}
                /\ out.college_type = order[CHOOSE k \in best : \A j \in best : k <= j]
        /\ \A k \in 1..Len(out.courses.categories) :
              out.courses.categories[k].category \in SeqRange(order)

\* A record whose largest category is neither the first of its categories nor
\* alone at the maximum, with more courses accepted than the flat list keeps.
C24_Witness ==
  /\ Returned
  /\ Len(out.courses.categories) >= 3
  /\ out.college_type # out.courses.categories[1].category
  /\ Cardinality(LargestCategories(out)) >= 2
  /\ out.courses.total_courses > MaxCourses

----------------------------------------------------------------------------
(* The categories as a partition of the accepted items *)

\* The items of a raw list that the length filter accepts, cleaned, in input
\* order: the strings whose cleaned text has 3 to 100 characters.
AcceptedItems(raw_list) ==
  IF ~Truthy(raw_list) \/ ~Iterable(raw_list) THEN <<>>
  ELSE SelectSeq([i \in 1..Len(Items(raw_list)) |->
                    IF IsStr(Items(raw_list)[i]) THEN clean_text(Items(raw_list)[i]) ELSE <<>>],
                 LAMBDA item : Len(item) >= MinItemLen /\ Len(item) <= MaxItemLen)

\* How often a sequence holds a value.
Occurrences(s, x) == Cardinality({i \in 1..Len(s) : s[i] = x})

\* The sizes of the category lists, added up.
RECURSIVE SumOfSizes(_)
SumOfSizes(categories) ==
  IF Len(categories) = 0 THEN 0
  ELSE Len(Head(categories).items) + SumOfSizes(Tail(categories))

\* The categories partition the accepted items, and the flat list is the first
\* cap of them.
IsPartition(accepted, flat, categories, total_count, cap) ==
  /\ total_count = Len(accepted)
  /\ SumOfSizes(categories) = total_count
  /\ \A i \in 1..Len(accepted) :
        /\ Cardinality({k \in 1..Len(categories) :
                          Occurrences(categories[k].items, accepted[i]) > 0}) = 1
        /\ \E k \in 1..Len(categories) :
              Occurrences(categories[k].items, accepted[i]) = Occurrences(accepted, accepted[i])
  /\ flat = Prefix(accepted, cap)
  /\ total_count >= Len(flat)

\* C27: course and facility categorization partitions the accepted items: each
\* item the length filter [3, 100] accepts is in exactly one category list, the
\* sizes of the category lists add up to total_count, and the flat list is the
\* first min(total_count, cap) accepted items in input order (cap 20 for
\* courses, 15 for facilities), so total_count >= len(items).
C27_CategoriesPartitionAccepted ==
  Returned =>
    /\ (out.courses.has_unique \/ ~Truthy(Get(raw, "courses", PyList(<<>>)))) =>
          IsPartition(AcceptedItems(Get(raw, "courses", PyList(<<>>))), out.courses.courses,
                      out.courses.categories, out.courses.total_courses, MaxCourses)
    /\ (out.facilities.has_unique \/ ~Truthy(Get(raw, "facilities", PyList(<<>>)))) =>
          IsPartition(AcceptedItems(Get(raw, "facilities", PyList(<<>>))),
                      out.facilities.facilities, out.facilities.categories,
                      out.facilities.total_facilities, MaxFacilities)

\* More courses accepted than the flat list keeps, in several categories.
C27_Witness ==
  /\ Returned
  /\ out.courses.has_unique
  /\ out.courses.total_courses > MaxCourses
  /\ Len(out.courses.courses) = MaxCourses
  /\ Len(out.courses.categories) >= 2

----------------------------------------------------------------------------
(* src/ai_generator.py: generate_content_with_retry.  gen is the frame of one
   call: pos its position, attempt the loop variable, responses what each model
   call so far gave (PyNone for a call that raised, else the content of the
   message), ret the value returned. *)

\* The largest max_retries a caller passes.
MaxRetries == 3

\* json.dumps(fallback) of create_fallback_content, the payload cut to its first field.
create_fallback_content ==
  <<"{","\"","o","v","e","r","v","i","e","w","\"",":"," ","\"","T","h","i","s"," ","c","o","l","l","e","g","e"," ","o","f","f","e","r","s"," ","v","a","r","i","o","u","s"," ","e","d","u","c","a","t","i","o","n","a","l"," ","p","r","o","g","r","a","m","s"," ","f","o","r"," ","s","t","u","d","e","n","t","s",".","\"","}">>

\* The JSON documents among the contents of the model.
JsonDocuments == { <<"{","\"","o","v","e","r","v","i","e","w","\"",":"," ","\"","x","\"","}">> }

\* json.loads(content) returns: content is a JSON document between whitespace.
IsJson(content) == Strip(content) \in JsonDocuments

\* content.strip(), then the fence of three backquotes and 'json' cut from the
\* start and the fence of three backquotes from the end.  The backquote, which
\* a TLA+ string cannot hold, is written ' in the model.
Unfence(text) ==
  LET content == Strip(text)
      opened == IF StartsWith(content, <<"'","'","'","j","s","o","n">>) THEN Suffix(content, 7) ELSE content
  IN  IF Len(opened) >= 3 /\ Suffix(opened, Len(opened) - 3) = <<"'","'","'">>
      THEN Prefix(opened, Len(opened) - 3)
      ELSE opened

\* What a model call gives: an exception (the API fails, or the message has no
\* content), or the content of the message.
ModelResponses ==
  {PyNone,
   PyStr(<<"{","\"","o","v","e","r","v","i","e","w","\"",":"," ","\"","x","\"","}">>),
   PyStr(<<" ","{","\"","o","v","e","r","v","i","e","w","\"",":"," ","\"","x","\"","}","\n">>),
   PyStr(<<"'","'","'","j","s","o","n","\n","{","\"","o","v","e","r","v","i","e","w","\"",":"," ","\"","x","\"","}","\n","'","'","'">>),
   PyStr(<<"'","'","'","\n","{","\"","o","v","e","r","v","i","e","w","\"",":"," ","\"","x","\"","}","\n","'","'","'">>),
   PyStr(<<"S","o","r","r","y">>),
   PyStr(<<"{","\"","o","v","e","r","v","i","e","w","\"",":"," ","\"","x">>),
   PyStr(<<>>)}

\* A faulty test of the last attempt: attempt == max_retries, which no attempt meets.
last_attempt_off(attempt, max_retries) == attempt = max_retries

\* attempt == max_retries - 1
last_attempt(attempt, max_retries) == attempt = max_retries - 1

\* A caller calls generate_content_with_retry(prompt, max_retries).
GenerateStart ==
  /\ gen.pos = "idle"
  /\ \E n \in 0..MaxRetries :
       gen' = [pos |-> "attempt", max_retries |-> n, attempt |-> 0, responses |-> <<>>,
               ret |-> PyNone]
  /\ UNCHANGED <<cleaner_vars, call_vars, scraper_vars, thread_vars, proc_vars, inter_vars>>

\* One pass of the loop body up to its return, its sleep or its end: the model
\* call, the cleaning of the content and json.loads.  A call that raises, and a
\* content that is no JSON, give the fallback on the last attempt; before it the
\* first leads to the sleep and the second to the next attempt.
Attempt ==
  /\ gen.pos = "attempt" /\ gen.attempt < gen.max_retries
  /\ \E response \in ModelResponses :
       LET made == [gen EXCEPT !.responses = Append(@, response)]
       IN  IF response # PyNone /\ IsJson(Unfence(response.v))
           THEN gen' = [made EXCEPT !.pos = "returned", !.ret = PyStr(Unfence(response.v))]
           ELSE IF last_attempt(gen.attempt, gen.max_retries)
           THEN gen' = [made EXCEPT !.pos = "returned", !.ret = PyStr(create_fallback_content)]
           ELSE IF response = PyNone
           THEN gen' = [made EXCEPT !.pos = "sleep"]
           ELSE gen' = [made EXCEPT !.attempt = @ + 1]
  /\ UNCHANGED <<cleaner_vars, call_vars, scraper_vars, thread_vars, proc_vars, inter_vars>>

\* await asyncio.sleep(2 ** attempt) ends, and the loop goes to the next attempt.
Backoff ==
  /\ gen.pos = "sleep"
  /\ gen' = [gen EXCEPT !.pos = "attempt", !.attempt = @ + 1]
  /\ UNCHANGED <<cleaner_vars, call_vars, scraper_vars, thread_vars, proc_vars, inter_vars>>

\* range(max_retries) is exhausted: return None
LoopEnd ==
  /\ gen.pos = "attempt" /\ gen.attempt >= gen.max_retries
  /\ gen' = [gen EXCEPT !.pos = "returned", !.ret = PyNone]
  /\ UNCHANGED <<cleaner_vars, call_vars, scraper_vars, thread_vars, proc_vars, inter_vars>>

GenerateNext == GenerateStart \/ Attempt \/ Backoff \/ LoopEnd

\* Once called, the coroutine is run to its end: the model call returns or
\* raises, and the event loop resumes the coroutine when its sleep is over.
GenerateSpec ==
  Init /\ [][GenerateNext]_vars /\ WF_vars(Attempt) /\ WF_vars(Backoff) /\ WF_vars(LoopEnd)

\* The response of a model call fails: the call raised or its content is no JSON.
Fails(response) == response = PyNone \/ ~IsJson(Unfence(response.v))

\* What holds of a call with max_retries >= 1 at every moment: no more than
\* max_retries model calls; a value returned is never None; it is the cleaned
\* content of the last response, the first that is JSON; or it is the fallback,
\* after max_retries responses that all fail.
GenerateSafe ==
  gen.max_retries >= 1 =>
    /\ Len(gen.responses) <= gen.max_retries
    /\ gen.pos = "returned" =>
         LET n == Len(gen.responses)
         IN  /\ gen.ret # PyNone
             /\ n >= 1
             /\ \A i \in 1..(n - 1) : Fails(gen.responses[i])
             /\ IF Fails(gen.responses[n])
                THEN n = gen.max_retries /\ gen.ret = PyStr(create_fallback_content)
                ELSE gen.ret = PyStr(Unfence(gen.responses[n].v))

\* C25: the content generator always ends with a payload: a call of
\* generate_content_with_retry with max_retries >= 1 makes at most max_retries
\* model calls, returns the first response that is valid JSON, returns the
\* fallback payload after the last attempt when every attempt fails, never
\* returns None and never returns the fallback before the last attempt; and
\* every call returns.
C25_EndsWithPayload ==
  /\ []GenerateSafe
  /\ (gen.pos = "attempt") ~> (gen.pos = "returned")

\* A call with three attempts has returned the fallback after a call that
\* raised, a sleep and two contents that are no JSON.
C25_Witness ==
  /\ gen.pos = "returned"
  /\ gen.max_retries = MaxRetries
  /\ Len(gen.responses) = MaxRetries
  /\ gen.responses[1] = PyNone
  /\ gen.ret = PyStr(create_fallback_content)

----------------------------------------------------------------------------
(* src/main.py: process_colleges.  proc is the frame of one call: pos its
   position, scraped_data what scrape_colleges returned, i the number of records
   the loop has taken, processed_colleges the list the loop builds, and colleges,
   summary and errors the entries of results.  An entry of colleges is its id
   and its cleaned record; the generated content and the times are left out.
   An error message is the number of the college it names, 0 for the critical
   error of the outer handler. *)

\* The longest list scrape_colleges returns.
MaxBatch == 3

\* The records scrape_colleges returns: dicts.
ScrapedRecords ==
  {r \in ConcurrentInputs : Get(r, "courses", PyNone) # PyNone}

\* clean_data = clean_college_data(college_data), for each record that can be scraped.
clean_data_of == [college_data \in ScrapedRecords |-> clean_college_data(college_data)]

\* scraped_data = await self.scraper.scrape_colleges(...)
ProcessStart ==
  /\ proc.pos = "idle"
  /\ \E n \in 0..MaxBatch : \E data \in [1..n -> ScrapedRecords] :
       proc' = [proc EXCEPT !.pos = "loop", !.scraped_data = data]
  /\ UNCHANGED <<cleaner_vars, call_vars, scraper_vars, thread_vars, gen_vars, inter_vars>>

\* A faulty loop body: the handler of the loop ends the loop, so a record that
\* fails keeps the later records from being processed.
ProcessRecord_abort ==
  /\ proc.pos = "loop" /\ proc.i < Len(proc.scraped_data)
  /\ \E generated \in BOOLEAN :
       proc' = LET clean_data == clean_data_of[proc.scraped_data[proc.i + 1]]
               IN  IF clean_data.ok /\ generated
                   THEN [proc EXCEPT
                           !.processed_colleges =
                              Append(@, [id |-> proc.i + 1, raw_data |-> clean_data.val]),
                           !.i = @ + 1]
                   ELSE [proc EXCEPT !.errors = Append(@, proc.i + 1),
                                     !.i = Len(proc.scraped_data)]
  /\ UNCHANGED <<cleaner_vars, call_vars, scraper_vars, thread_vars, gen_vars, inter_vars>>

\* One pass of the loop over enumerate(scraped_data): the record is cleaned, the
\* content is generated, and the entry with id i + 1 is appended; or one of the
\* two calls raises, and the handler of the loop appends the message that names
\* college i + 1 and continues.
ProcessRecord ==
  /\ proc.pos = "loop" /\ proc.i < Len(proc.scraped_data)
  /\ \E generated \in BOOLEAN :
       proc' = LET clean_data == clean_data_of[proc.scraped_data[proc.i + 1]]
               IN  IF clean_data.ok /\ generated
                   THEN [proc EXCEPT
                           !.processed_colleges =
                              Append(@, [id |-> proc.i + 1, raw_data |-> clean_data.val]),
                           !.i = @ + 1]
                   ELSE [proc EXCEPT !.errors = Append(@, proc.i + 1), !.i = @ + 1]
  /\ UNCHANGED <<cleaner_vars, call_vars, scraper_vars, thread_vars, gen_vars, inter_vars>>

\* After the loop: results["colleges"] and results["summary"] are set.
Summarize ==
  /\ proc.pos = "loop" /\ proc.i = Len(proc.scraped_data)
  /\ proc' = [proc EXCEPT
                !.pos = "save",
                !.colleges = proc.processed_colleges,
                !.summary = [total_colleges |-> Len(proc.processed_colleges),
                             successful_processing |-> Len(proc.processed_colleges),
                             errors |-> Len(proc.errors)]]
  /\ UNCHANGED <<cleaner_vars, call_vars, scraper_vars, thread_vars, gen_vars, inter_vars>>

\* save_results(results) returns, or raises and the outer handler appends the
\* critical error; either way results is returned.
SaveAndReturn ==
  /\ proc.pos = "save"
  /\ \E saved \in BOOLEAN :
       proc' = [proc EXCEPT !.pos = "returned",
                            !.errors = IF saved THEN @ ELSE Append(@, 0)]
  /\ UNCHANGED <<cleaner_vars, call_vars, scraper_vars, thread_vars, gen_vars, inter_vars>>

ProcessNext == ProcessStart \/ ProcessRecord \/ Summarize \/ SaveAndReturn

\* The coroutine, once called, is run to its end.
ProcessSpec ==
  Init /\ [][ProcessNext]_vars
       /\ WF_vars(ProcessRecord) /\ WF_vars(Summarize) /\ WF_vars(SaveAndReturn)

\* The outcomes of record n so far: its entries in the list of the loop and the
\* messages that name it.
Outcomes(n) ==
  Cardinality({k \in 1..Len(proc.processed_colleges) : proc.processed_colleges[k].id = n})
  + Cardinality({k \in 1..Len(proc.errors) : proc.errors[k] = n})

\* What holds of a call at every moment: each record the loop has taken has
\* exactly one outcome and no later record has any; the entries are in the order
\* of the records, so their ids are unique, and each holds the cleaned record of
\* its record; and what is returned lists every entry and counts them.
ProcessSafe ==
  /\ \A n \in 1..Len(proc.scraped_data) : Outcomes(n) = (IF n <= proc.i THEN 1 ELSE 0)
  /\ \A k \in 1..Len(proc.processed_colleges) :
        /\ \A j \in 1..(k - 1) : proc.processed_colleges[j].id < proc.processed_colleges[k].id
        /\ DifferingFields(proc.processed_colleges[k].raw_data,
                           clean_data_of[proc.scraped_data[proc.processed_colleges[k].id]].val) = {}
  /\ proc.pos = "returned" =>
        /\ proc.i = Len(proc.scraped_data)
        /\ proc.colleges = proc.processed_colleges
        /\ proc.summary.total_colleges = Len(proc.colleges)

\* C26: batch processing is never blocked by one bad record: process_colleges
\* takes every scraped record in order; record i gives exactly one outcome, the
\* entry with id i + 1 or the one message that names college i + 1; a failure
\* keeps no later record from being processed; the ids of colleges are unique;
\* summary.total_colleges is the number of entries of colleges; and the call
\* returns.
C26_BatchNeverBlocked ==
  /\ []ProcessSafe
  /\ (proc.pos = "loop") ~> (proc.pos = "returned")

\* Of three records the second failed, the first and the third gave the entries
\* 1 and 3, and saving failed.
C26_Witness ==
  /\ proc.pos = "returned"
  /\ Len(proc.scraped_data) = MaxBatch
  /\ Len(proc.colleges) = 2
  /\ proc.colleges[2].id = MaxBatch
  /\ proc.errors = <<2, 0>>

----------------------------------------------------------------------------
(* src/interactive.py: search_college_by_name and process_college.  inter is the
   frame of one call of process_college: pos its position, college_name its
   argument, known_college the position in KARNATAKA_COLLEGES of the entry the
   lookup returned (0 for None), scraped_data what scraping the entry's website
   gave (PyNone when it gave nothing or raised), college_data_list what
   search_college_by_name returned, clean_data the record cleaned. *)

\* The names a user types: the key and the official name of every entry, and the
\* name of a college that is not in the table.
TypedNames ==
  {KARNATAKA_COLLEGES[k].key : k \in 1..Len(KARNATAKA_COLLEGES)}
  \cup {KARNATAKA_COLLEGES[k].official_name : k \in 1..Len(KARNATAKA_COLLEGES)}
  \cup {<<"D","a","y","a","n","a","n","d","a"," ","S","a","g","a","r">>}

\* An entry of KARNATAKA_COLLEGES as the raw record the cleaner reads: the dict
\* has the keys official_name, website, location, type, established and
\* affiliation; of the keys raw_data.get is called with it has website,
\* location, established and affiliation, and it has no key 'name'.
known_college_record(entry) ==
  Dict([website |-> PyStr(entry.website),
        location |-> PyStr(entry.location),
        established |-> PyStr(entry.established),
        affiliation |-> PyStr(entry.affiliation)])

\* scraped_data.update({...}) with the fields of the entry; the key college_type
\* it also sets is one the cleaner does not read.
enhance_with_database(scraped_data, entry) ==
  PyDict([scraped_data.v EXCEPT !["name"] = PyStr(entry.official_name),
                               !["location"] = PyStr(entry.location),
                               !["established"] = PyStr(entry.established),
                               !["affiliation"] = PyStr(entry.affiliation)])

\* search_college_by_name(college_name): for a known college its website is
\* scraped, and the record scraped, enhanced with the entry, is returned, or the
\* entry itself when scraping gave nothing or raised; for any other name the
\* online search gives one record or none.
SearchCollege ==
  /\ inter.pos = "idle"
  /\ \E college_name \in TypedNames, scraped_data \in ScrapedRecords \cup {PyNone} :
       LET known_college == find_college_by_name(college_name)
           entry == KARNATAKA_COLLEGES[known_college]
       IN  inter' = [inter EXCEPT
                       !.pos = "searched",
                       !.college_name = college_name,
                       !.known_college = known_college,
                       !.scraped_data = scraped_data,
                       !.college_data_list =
                          IF known_college # 0
                          THEN IF scraped_data # PyNone
                               THEN <<enhance_with_database(scraped_data, entry)>>
                               ELSE <<known_college_record(entry)>>
                          ELSE IF scraped_data # PyNone THEN <<scraped_data>> ELSE <<>>]
  /\ UNCHANGED <<cleaner_vars, call_vars, scraper_vars, thread_vars, gen_vars, proc_vars>>

\* process_college after the search: nothing found is reported; else the first
\* record of the list is cleaned and displayed.
ProcessCollege ==
  /\ inter.pos = "searched"
  /\ inter' = IF Len(inter.college_data_list) = 0
              THEN [inter EXCEPT !.pos = "no data"]
              ELSE [inter EXCEPT !.pos = "displayed",
                                 !.clean_data = clean_college_data(inter.college_data_list[1]).val]
  /\ UNCHANGED <<cleaner_vars, call_vars, scraper_vars, thread_vars, gen_vars, proc_vars>>

InteractiveNext == SearchCollege \/ ProcessCollege

InteractiveSpec == Init /\ [][InteractiveNext]_vars

\* A known college whose website could not be scraped has been cleaned.
SeedCleaned ==
  inter.pos = "displayed" /\ inter.known_college # 0 /\ inter.scraped_data = PyNone

\* C28: when a known institution is found by the lookup but its website cannot
\* be scraped, the lookup's seed record is what gets cleaned, and the canonical
\* record carries the institution's official name (and its location,
\* established year and affiliation) rather than the sentinel 'Unknown College'.
C28_SeedKeepsOfficialName ==
  SeedCleaned =>
    LET entry == KARNATAKA_COLLEGES[inter.known_college]
    IN  /\ inter.clean_data.name = PyStr(clean_college_name(PyStr(entry.official_name)))
        /\ inter.clean_data.name # PyStr(UnknownCollege)
        /\ inter.clean_data.location = PyStr(clean_location(PyStr(entry.location)))
        /\ inter.clean_data.established = entry.established
        /\ inter.clean_data.affiliation = entry.affiliation

\* What the code does hold to: of the seed record the location, the established
\* year and the affiliation are carried, and the name is the sentinel.
C28_SeedIsUnnamed ==
  SeedCleaned =>
    LET entry == KARNATAKA_COLLEGES[inter.known_college]
    IN  /\ inter.clean_data.name = PyStr(UnknownCollege)
        /\ inter.clean_data.location = PyStr(clean_location(PyStr(entry.location)))
        /\ inter.clean_data.established = entry.established
        /\ inter.clean_data.affiliation = entry.affiliation

----------------------------------------------------------------------------
(* The lookup round trip *)

\* C29: lookup round trip: for every entry of the table, find_college_by_name
\* called with the entry's key or with its official name, in any letter case and
\* with surrounding whitespace, returns that same entry.
C29_LookupRoundTrip ==
  fn = "find_college_by_name" =>
    \A k \in 1..Len(KARNATAKA_COLLEGES) :
       (\/ Strip(Lower(arg)) = KARNATAKA_COLLEGES[k].key
        \/ Strip(Lower(arg)) = Lower(KARNATAKA_COLLEGES[k].official_name)) => ret = k

\* What the code does hold to: the round trip from the key.
C29_KeyRoundTrip ==
  fn = "find_college_by_name" =>
    \A k \in 1..Len(KARNATAKA_COLLEGES) :
       Strip(Lower(arg)) = KARNATAKA_COLLEGES[k].key => ret = k

----------------------------------------------------------------------------
(* scraped_urls over the calls of one session *)

\* The record extracted has a name, a course or a description.
Yielded ==
  /\ college_info.ok
  /\ \/ Len(college_info.val.name) > 0
     \/ Len(college_info.val.courses) > 0
     \/ Len(college_info.val.description) > 0

\* A URL is added to scraped_urls only by the step that follows the extraction
\* from its page, when the page yielded a name, courses or a description; and
\* scraped_urls never shrinks.
AddedAfterYield ==
  /\ scraped_urls \subseteq scraped_urls'
  /\ scraped_urls' # scraped_urls =>
        /\ spc = "extracted" /\ Yielded
        /\ scraped_urls' = scraped_urls \cup {Head(todo)}

\* The page that has been fetched, or fetched and extracted from, is not one of
\* a URL in scraped_urls.
NotScrapedBefore == spc' \in {"extract", "extracted"} => Head(todo') \notin scraped_urls'

\* C30: within one scraper session, after any sequence of scrape_colleges calls:
\* a URL is added to scraped_urls only after its page was fetched and yielded a
\* name, courses or a description; scraped_urls never shrinks; and a URL already
\* in scraped_urls is never fetched and extracted again by a later call,
\* whichever way it is supplied (search result, directory listing or
\* specific_urls).
C30_ScrapedOnce == [][AddedAfterYield /\ NotScrapedBefore]_vars

\* What the code does hold to: the first two parts.
C30_ScrapedUrlsGrow == [][AddedAfterYield]_vars

====
